---- MODULE Spec2Model ----
(***************************************************************************)
(* A state-machine model of the restorable-image / command-queue core of   *)
(* ebiten:                                                                 *)
(*   - package restorable (Image, vertices backend)                        *)
(*   - package graphics   (commandQueue and its commands)                  *)
(*   - package ebiten     (Image wrapper and the `images` registry)        *)
(*                                                                         *)
(* Conventions.  An image is WidthPx x 1 pixels and a pixel is one colour  *)
(* value (the four RGBA bytes taken together).  Operators that model Go    *)
(* functions take and return a "world" record w holding every piece of     *)
(* program state, so that a function that calls other functions is the     *)
(* composition of their operators.  w.out is NoOut while the call runs     *)
(* normally and becomes a panic / error record when the call panics or     *)
(* returns an error; the remaining steps of the call are then skipped.     *)
(* Where a function goes on with the result of a call, the rest of it is   *)
(* an operator of its own that takes the world after the call as its       *)
(* parameter (FlushReturn, AssignPixels, RestoreRead, ...): TLC's coverage *)
(* statistics expand every use of a definition, parameters they do not.    *)
(* The registry that restorable.Image calls `theImages` and the one the    *)
(* ebiten package calls `theImagesForRestoring` are one registry here: the *)
(* only registry code is the `images` type.                                *)
(***************************************************************************)
EXTENDS Integers, Sequences, FiniteSets, TLC

VARIABLES
    images,          \* restorable.Image objects, by identity
    eimg,            \* ebiten.Image handles: "none" | "set" | "nil" (field restorable);
                     \* "finalizing" | "removing": set / nil while the finalizer runs
    theImages,       \* the registry: [images, lastChecked, forRestoring]
    theCommandQueue, \* graphics.theCommandQueue
    theVerticesBackend, \* restorable.theVerticesBackend: the slots handed out
    gpu,             \* texture contents, by image identity
    ctx,             \* GL context: [state, epoch, before]
    last,            \* the most recent call: [op, img, ..., out, ret, log]
    dom              \* the input domains of the running specification

vars == <<images, eimg, theImages, theCommandQueue, theVerticesBackend, gpu, ctx, last, dom>>

----------------------------------------------------------------------------
(* Bounds of the model *)

NumImages == 3
WidthPx == 2
MaxColor == 1
MaxGets == 3
MaxQueued == 1
MaxLosses == 1
indicesNum == 12

(* Program constants *)

maxDrawImageHistoryNum == 100
num == 256
VertexSizeInFloats == 10
QuadIndicesNum == 6
QuadVerticesNum == 4

Nil == "nil"
Img == 1..NumImages
Pix == 0..(WidthPx - 1)
HeightPx == 1
Garbage == -1
Color == 0..MaxColor
\* A pixel buffer is the sequence of its pixels, pixel x at index x + 1; a nil
\* slice is the empty sequence.
NilPixels == <<>>
ZeroPixels == [p \in 1..WidthPx |-> 0]
GarbagePixels == [p \in 1..WidthPx |-> Garbage]
NilImage == -1
NilSlice == [own |-> FALSE, at |-> 0, n |-> 0, quads |-> <<>>]
NoOut == [kind |-> "none", msg |-> ""]

Min(a, b) == IF a < b THEN a ELSE b

RECURSIVE SumSeq(_)
SumSeq(s) == IF s = <<>> THEN 0 ELSE Head(s) + SumSeq(Tail(s))

Take(s, n) == SubSeq(s, 1, Min(n, Len(s)))
Drop(s, n) == SubSeq(s, Min(n, Len(s)) + 1, Len(s))

----------------------------------------------------------------------------
(* World records *)

World ==
    [images |-> images, eimg |-> eimg, theImages |-> theImages,
     q |-> theCommandQueue, vb |-> theVerticesBackend, gpu |-> gpu,
     ctx |-> ctx, dom |-> dom, out |-> NoOut, ret |-> 0, slice |-> NilSlice,
     pixels |-> NilPixels, log |-> <<>>]

Panic(w, msg) == [w EXCEPT !.out = [kind |-> "panic", msg |-> msg]]
Fail(w, msg) == [w EXCEPT !.out = [kind |-> "error", msg |-> msg]]
Running(w) == w.out.kind = "none"

NoImage == [image |-> NilImage, basePixels |-> NilPixels, drawImageHistory |-> <<>>,
            stale |-> FALSE, volatile |-> FALSE, screen |-> FALSE, made |-> FALSE]

IsLive(w, i) == w.images[i].made /\ w.images[i].image # NilImage

----------------------------------------------------------------------------
(* restorable: the vertices backend (vertices.go) *)

\* A quad as Image.vertices writes it: the source rectangle (texture
\* coordinates), the geometry (vertex coordinates) and the tint channels.
Quad(sx0, sy0, sx1, sy1, tint, geo) ==
    [sx0 |-> sx0, sy0 |-> sy0, sx1 |-> sx1, sy1 |-> sy1, dx |-> geo,
     tint |-> IF tint = Nil THEN "white" ELSE tint]

NoQuad == [sx0 |-> 0, sy0 |-> 0, sx1 |-> 0, sy1 |-> 0, dx |-> 0, tint |-> "white"]

\* The slot get() hands out next; slots are numbered 1, 2, ... over all the
\* backend arrays, `num` slots to an array.
verticesBackend_get(vb) == [slot |-> vb.head + 1, vb |-> [vb EXCEPT !.head = vb.head + 1,
                                                        !.mem = Append(vb.mem, NoQuad)]]

\* cap() of a slice that starts at slot `at`: the rest of its backend array.
SliceCap(at) == num - ((at - 1) % num)

\* The test for a rectangle with nothing to draw, made against the far edges
\* of the image instead of the near ones.
VerticesIsNil_positiveBound(sx0, sy0, sx1, sy1) ==
    \/ sx0 >= sx1 \/ sy0 >= sy1
    \/ sx0 >= WidthPx \/ sy0 >= HeightPx

\* Image.vertices: Nil for a degenerate rectangle, else a one-quad slice.
VerticesIsNil(sx0, sy0, sx1, sy1) ==
    \/ sx0 >= sx1 \/ sy0 >= sy1
    \/ sx1 <= 0 \/ sy1 <= 0

Image_vertices(w, sx0, sy0, sx1, sy1, tint, geo) ==
    IF VerticesIsNil(sx0, sy0, sx1, sy1) THEN [w EXCEPT !.slice = NilSlice]
    ELSE LET g == verticesBackend_get(w.vb)
         IN [w EXCEPT !.vb = [g.vb EXCEPT !.mem[g.slot] = Quad(sx0, sy0, sx1, sy1, tint, geo)],
                      !.slice = [own |-> FALSE, at |-> g.slot, n |-> 1, quads |-> <<>>]]

\* The quads a slice holds now.
SliceQuads(vb, s) ==
    IF s.own THEN s.quads ELSE [k \in 1..s.n |-> vb.mem[s.at + k - 1]]

SliceLen(s) == IF s.own THEN Len(s.quads) ELSE s.n

\* append(a, b...) on slices of the backend: in place while cap(a) allows,
\* else a freshly allocated array.  Returns [vb, slice].
AppendSlice(vb, a, b) ==
    LET bq == SliceQuads(vb, b)
    IN IF a.own THEN [vb |-> vb, slice |-> [a EXCEPT !.quads = a.quads \o bq]]
       ELSE IF a.n + Len(bq) <= SliceCap(a.at)
            THEN [vb |-> [vb EXCEPT !.mem = [k \in 1..Len(vb.mem) |->
                                    IF k >= a.at + a.n /\ k < a.at + a.n + Len(bq)
                                    THEN bq[k - (a.at + a.n) + 1] ELSE vb.mem[k]]],
                  slice |-> [a EXCEPT !.n = a.n + Len(bq)]]
            ELSE [vb |-> vb,
                  slice |-> [own |-> TRUE, at |-> 0, n |-> 0, quads |-> SliceQuads(vb, a) \o bq]]

----------------------------------------------------------------------------
(* graphics: commands and the command queue (command.go) *)

\* A *graphics.Image: the image it belongs to and the context epoch it was
\* created in (restore replaces it by a new object).
GRef(i, e) == [id |-> i, ep |-> e]
NoRef == [id |-> 0, ep |-> 0]

\* alias: the field pixels is the very slice the caller passed, not a copy.
Cmd(kind, dst, src) ==
    [kind |-> kind, dst |-> dst, src |-> src, nvertices |-> 0, nindices |-> 0,
     color |-> Nil, mode |-> Nil, filter |-> Nil,
     pixels |-> <<>>, alias |-> FALSE, x |-> 0, y |-> 0, width |-> 0, height |-> 0]

drawImageCommand(dst, src, nvertices, nindices, color, mode, filter) ==
    [Cmd("draw", dst, src) EXCEPT !.nvertices = nvertices, !.nindices = nindices,
                                  !.color = color, !.mode = mode, !.filter = filter]

replacePixelsCommand(dst, pixels, x, y, width, height) ==
    [Cmd("replace", dst, NoRef) EXCEPT !.pixels = pixels, !.x = x, !.y = y,
                                       !.width = width, !.height = height]

disposeCommand(target) == Cmd("dispose", target, NoRef)

newImageCommand(result, width, height) ==
    [Cmd("new", result, NoRef) EXCEPT !.width = width, !.height = height]

newScreenFramebufferImageCommand(result, width, height) ==
    [Cmd("newScreen", result, NoRef) EXCEPT !.width = width, !.height = height]

NumVertices(c) == IF c.kind = "draw" THEN c.nvertices ELSE 0
NumIndices(c) == IF c.kind = "draw" THEN c.nindices ELSE 0

\* affine.ColorM.Equals: equality of the matrices' values.
ColorM_Equals(a, b) == a = b

\* CanMerge that does not compare the composite modes.
CanMerge_ignoresMode(c, dst, src, color, mode, filter) ==
    /\ c.kind = "draw"
    /\ c.dst = dst
    /\ c.src = src
    /\ ColorM_Equals(c.color, color)
    /\ c.filter = filter

CanMerge(c, dst, src, color, mode, filter) ==
    /\ c.kind = "draw"
    /\ c.dst = dst
    /\ c.src = src
    /\ ColorM_Equals(c.color, color)
    /\ c.mode = mode
    /\ c.filter = filter

EmptyQueue ==
    [commands |-> <<>>, vertices |-> <<>>, indices |-> <<>>, nindices |-> 0,
     tmpNumIndices |-> 0, nextIndex |-> 0]

\* The vertices of a slice of quads, as the queue stores them: four vertices a
\* quad, each VertexSizeInFloats floats.
QuadVertices(quads) ==
    [k \in 1..(QuadVerticesNum * Len(quads)) |->
        [quad |-> quads[((k - 1) \div QuadVerticesNum) + 1], corner |-> (k - 1) % QuadVerticesNum]]

\* graphics.QuadIndices()[:6*n]: 0,1,2,1,2,3, 4,5,6,5,6,7, ...
QuadCorner(j) == CASE j = 0 -> 0 [] j = 1 -> 1 [] j = 2 -> 2
                   [] j = 3 -> 1 [] j = 4 -> 2 [] OTHER -> 3
QuadIndices(n) ==
    [k \in 1..(QuadIndicesNum * n) |->
        QuadVerticesNum * ((k - 1) \div QuadIndicesNum) + QuadCorner((k - 1) % QuadIndicesNum)]

commandQueue_appendVertices(q, vertices) == [q EXCEPT !.vertices = @ \o vertices]

commandQueue_appendIndices(q, indices, offset) ==
    [q EXCEPT !.indices = @ \o [k \in 1..Len(indices) |-> (indices[k] + offset) % 65536],
              !.nindices = @ + Len(indices)]

\* A merge that adds the indices to the last command but not the vertices.
doEnqueueDrawImageCommand_indicesOnly(w, dst, src, nvertices, nindices, color, mode, filter, forceNewCommand) ==
    IF nindices > indicesNum THEN Panic(w, "not implemented for too many indices")
    ELSE LET cs == w.q.commands
             n == Len(cs)
         IN IF ~forceNewCommand /\ 0 < n /\ CanMerge(cs[n], dst, src, color, mode, filter)
            THEN [w EXCEPT !.q.commands[n].nindices = @ + nindices]
            ELSE [w EXCEPT !.q.commands =
                     Append(@, drawImageCommand(dst, src, nvertices, nindices, color, mode, filter))]

\* doEnqueueDrawImageCommand that merges even when a new command is forced.
doEnqueueDrawImageCommand_neverForced(w, dst, src, nvertices, nindices, color, mode, filter, forceNewCommand) ==
    IF nindices > indicesNum THEN Panic(w, "not implemented for too many indices")
    ELSE LET cs == w.q.commands
             n == Len(cs)
         IN IF 0 < n /\ CanMerge(cs[n], dst, src, color, mode, filter)
            THEN [w EXCEPT !.q.commands[n].nvertices = @ + nvertices,
                           !.q.commands[n].nindices = @ + nindices]
            ELSE [w EXCEPT !.q.commands =
                     Append(@, drawImageCommand(dst, src, nvertices, nindices, color, mode, filter))]

doEnqueueDrawImageCommand(w, dst, src, nvertices, nindices, color, mode, filter, forceNewCommand) ==
    IF nindices > indicesNum THEN Panic(w, "not implemented for too many indices")
    ELSE LET cs == w.q.commands
             n == Len(cs)
         IN IF ~forceNewCommand /\ 0 < n /\ CanMerge(cs[n], dst, src, color, mode, filter)
            THEN [w EXCEPT !.q.commands[n].nvertices = @ + nvertices,
                           !.q.commands[n].nindices = @ + nindices]
            ELSE [w EXCEPT !.q.commands =
                     Append(@, drawImageCommand(dst, src, nvertices, nindices, color, mode, filter))]

\* "temporary hack: populate color naively": floats 6.. of every vertex of the
\* caller's slice are set to 1.0.
PopulateColor(quads) == [k \in 1..Len(quads) |-> [quads[k] EXCEPT !.tint = "white"]]

\* The caller's slice after the call (it is written in place).
SliceAfterEnqueue(s) == IF s.own THEN [s EXCEPT !.quads = PopulateColor(s.quads)] ELSE s

BackendAfterEnqueue(vb, s) ==
    IF s.own THEN vb
    ELSE [vb EXCEPT !.mem = [k \in 1..Len(vb.mem) |->
                       IF k >= s.at /\ k < s.at + s.n
                       THEN [vb.mem[k] EXCEPT !.tint = "white"] ELSE vb.mem[k]]]

\* EnqueueDrawImageCommand that never splits.
EnqueueDrawImageCommand_neverSplits(w, dst, src, slice, indices, color, mode, filter) ==
    IF Len(indices) > indicesNum THEN Panic(w, "not reached")
    ELSE LET s2 == SliceAfterEnqueue(slice)
             vb2 == BackendAfterEnqueue(w.vb, slice)
             verts == QuadVertices(SliceQuads(vb2, s2))
             nfloats == Len(verts) * VertexSizeInFloats
             q1 == commandQueue_appendVertices(w.q, verts)
             q2 == commandQueue_appendIndices(q1, indices, q1.nextIndex % 65536)
             q3 == [q2 EXCEPT !.nextIndex = @ + (nfloats \div VertexSizeInFloats),
                              !.tmpNumIndices = @ + Len(indices)]
         IN doEnqueueDrawImageCommand([w EXCEPT !.q = q3, !.vb = vb2, !.slice = s2],
                                      dst, src, nfloats, Len(indices), color, mode, filter, FALSE)

\* EnqueueDrawImageCommand that leaves nextIndex as it is when it splits.
EnqueueDrawImageCommand_keepsNextIndex(w, dst, src, slice, indices, color, mode, filter) ==
    IF Len(indices) > indicesNum THEN Panic(w, "not reached")
    ELSE LET s2 == SliceAfterEnqueue(slice)
             vb2 == BackendAfterEnqueue(w.vb, slice)
             verts == QuadVertices(SliceQuads(vb2, s2))
             nfloats == Len(verts) * VertexSizeInFloats
             split == w.q.tmpNumIndices + Len(indices) > indicesNum
             q0 == IF split THEN [w.q EXCEPT !.tmpNumIndices = 0] ELSE w.q
             q1 == commandQueue_appendVertices(q0, verts)
             q2 == commandQueue_appendIndices(q1, indices, q1.nextIndex % 65536)
             q3 == [q2 EXCEPT !.nextIndex = @ + (nfloats \div VertexSizeInFloats),
                              !.tmpNumIndices = @ + Len(indices)]
         IN doEnqueueDrawImageCommand([w EXCEPT !.q = q3, !.vb = vb2, !.slice = s2],
                                      dst, src, nfloats, Len(indices), color, mode, filter, split)

\* EnqueueDrawImageCommand(dst, src, vertices, indices, color, mode, filter);
\* `vertices` is a slice of the vertices backend.  w.slice is the caller's slice
\* afterwards.
EnqueueDrawImageCommand(w, dst, src, slice, indices, color, mode, filter) ==
    IF Len(indices) > indicesNum THEN Panic(w, "not reached")
    ELSE LET s2 == SliceAfterEnqueue(slice)
             vb2 == BackendAfterEnqueue(w.vb, slice)
             verts == QuadVertices(SliceQuads(vb2, s2))
             nfloats == Len(verts) * VertexSizeInFloats
             split == w.q.tmpNumIndices + Len(indices) > indicesNum
             q0 == IF split THEN [w.q EXCEPT !.tmpNumIndices = 0, !.nextIndex = 0] ELSE w.q
             q1 == commandQueue_appendVertices(q0, verts)
             q2 == commandQueue_appendIndices(q1, indices, q1.nextIndex % 65536)
             q3 == [q2 EXCEPT !.nextIndex = @ + (nfloats \div VertexSizeInFloats),
                              !.tmpNumIndices = @ + Len(indices)]
         IN doEnqueueDrawImageCommand([w EXCEPT !.q = q3, !.vb = vb2, !.slice = s2],
                                      dst, src, nfloats, Len(indices), color, mode, filter, split)

\* Enqueue that puts the command in front of the queued ones.
commandQueue_Enqueue_first(w, command) == [w EXCEPT !.q.commands = <<command>> \o @]

commandQueue_Enqueue(w, command) == [w EXCEPT !.q.commands = Append(@, command)]

----------------------------------------------------------------------------
(* The graphics capability layer: what executing a command does to the
   textures.  gpu[i] is the texture of image i: the context epoch it was
   created in, its pixels (NilPixels: no texture) and how many times
   DeleteTexture was called on it. *)

NoTexture == [ep |-> -1, pix |-> NilPixels, deleted |-> 0]

HasTexture(g, r) == r.id \in Img /\ g[r.id].ep = r.ep /\ g[r.id].pix # NilPixels

\* Sampling a texture that does not exist yields undefined pixels.
TexPix(g, r) == IF HasTexture(g, r) THEN g[r.id].pix ELSE GarbagePixels

ApplyColorM(color, c) == IF c = Garbage THEN Garbage ELSE IF color = "id" THEN c ELSE 0
ApplyTint(tint, c) == IF c = Garbage THEN Garbage ELSE IF tint = "white" THEN c ELSE 0

Blend(mode, d, c) ==
    IF d = Garbage \/ c = Garbage THEN Garbage
    ELSE IF mode = "copy" THEN c
    ELSE Min(d + c, MaxColor)

\* One quad drawn: destination pixel dp shows source pixel sx0 + dp - dx.
DrawQuad(dstpix, srcpix, quad, color, mode) ==
    [p \in 1..WidthPx |->
        LET dp == p - 1
            sp == quad.sx0 + dp - quad.dx
            c == IF quad.sy0 = 0 /\ sp \in Pix THEN srcpix[sp + 1] ELSE 0
        IN IF quad.sy0 < quad.sy1 /\ sp >= quad.sx0 /\ sp < quad.sx1
           THEN Blend(mode, dstpix[p], ApplyColorM(color, ApplyTint(quad.tint, c)))
           ELSE dstpix[p]]

\* The quad that six consecutive indices address in the uploaded vertices, or
\* NoQuad when they do not address the four corners of one quad.
IndexedQuad(es, vs, base) ==
    LET vtx(j) == IF base + j <= Len(es) /\ es[base + j] + 1 <= Len(vs)
                  THEN vs[es[base + j] + 1] ELSE [quad |-> NoQuad, corner |-> -1]
    IN IF \A j \in 1..QuadIndicesNum :
              vtx(j).corner = QuadCorner(j - 1) /\ vtx(j).quad = vtx(1).quad
       THEN vtx(1).quad ELSE NoQuad

RECURSIVE DrawElements(_, _, _, _, _, _, _)
DrawElements(dstpix, srcpix, es, vs, base, count, c) ==
    IF count <= 0 THEN dstpix
    ELSE IF count < QuadIndicesNum THEN GarbagePixels
    ELSE LET quad == IndexedQuad(es, vs, base)
         IN IF quad = NoQuad THEN GarbagePixels
            ELSE DrawElements(DrawQuad(dstpix, srcpix, quad, c.color, c.mode),
                              srcpix, es, vs, base + QuadIndicesNum, count - QuadIndicesNum, c)

\* command.Exec(indexOffsetInBytes) on the uploaded chunk (es, vs).  `fails`
\* says that the capability layer fails this call (framebuffer or texture
\* allocation).  Returns [gpu, err].
drawImageCommand_Exec(g, c, es, vs, indexOffsetInBytes, fails) ==
    IF fails THEN [gpu |-> g, err |-> TRUE]
    ELSE IF c.nindices = 0 \/ ~HasTexture(g, c.dst) THEN [gpu |-> g, err |-> FALSE]
    ELSE [gpu |-> [g EXCEPT ![c.dst.id].pix =
                      DrawElements(@, TexPix(g, c.src), es, vs,
                                   indexOffsetInBytes \div 2, c.nindices, c)],
          err |-> FALSE]

replacePixelsCommand_Exec(g, c) ==
    IF ~HasTexture(g, c.dst) THEN [gpu |-> g, err |-> FALSE]
    ELSE [gpu |-> [g EXCEPT ![c.dst.id].pix =
                      [p \in 1..WidthPx |->
                          IF p - 1 >= c.x /\ p - 1 < c.x + c.width
                          THEN c.pixels[(p - 1 - c.x) + 1] ELSE @[p]]],
          err |-> FALSE]

\* c.target.texture is non-nil once the image's newImageCommand has run.
disposeCommand_Exec(g, c) ==
    IF c.dst.id \notin Img \/ g[c.dst.id].ep # c.dst.ep THEN [gpu |-> g, err |-> FALSE]
    ELSE [gpu |-> [g EXCEPT ![c.dst.id].pix = NilPixels, ![c.dst.id].deleted = @ + 1],
          err |-> FALSE]

newImageCommand_Exec(g, c, fails) ==
    IF fails THEN [gpu |-> g, err |-> TRUE]
    ELSE [gpu |-> [g EXCEPT ![c.dst.id] = [ep |-> c.dst.ep, pix |-> ZeroPixels, deleted |-> 0]],
          err |-> FALSE]

CanFail(c) == c.kind \in {"draw", "new"}

Exec(g, c, es, vs, indexOffsetInBytes, fails) ==
    CASE c.kind = "draw" -> drawImageCommand_Exec(g, c, es, vs, indexOffsetInBytes, fails)
      [] c.kind = "replace" -> replacePixelsCommand_Exec(g, c)
      [] c.kind = "dispose" -> disposeCommand_Exec(g, c)
      [] OTHER -> newImageCommand_Exec(g, c, fails)

----------------------------------------------------------------------------
(* commandQueue.Flush *)

\* The inner loop without its break at the end of the index buffer.
RECURSIVE FlushPrefix_noBreak(_, _, _, _, _)
FlushPrefix_noBreak(cmds, k, nv, ne, nc) ==
    IF k > Len(cmds) THEN [nc |-> nc, nv |-> nv, ne |-> ne, panic |-> FALSE]
    ELSE IF NumIndices(cmds[k]) > indicesNum THEN [nc |-> nc, nv |-> nv, ne |-> ne, panic |-> TRUE]
    ELSE FlushPrefix_noBreak(cmds, k + 1, nv + NumVertices(cmds[k]), ne + NumIndices(cmds[k]), nc + 1)

\* The inner loop that selects a chunk: [nc, nv, ne, panic].
RECURSIVE FlushPrefix(_, _, _, _, _)
FlushPrefix(cmds, k, nv, ne, nc) ==
    IF k > Len(cmds) THEN [nc |-> nc, nv |-> nv, ne |-> ne, panic |-> FALSE]
    ELSE IF NumIndices(cmds[k]) > indicesNum THEN [nc |-> nc, nv |-> nv, ne |-> ne, panic |-> TRUE]
    ELSE IF ne + NumIndices(cmds[k]) > indicesNum THEN [nc |-> nc, nv |-> nv, ne |-> ne, panic |-> FALSE]
    ELSE FlushPrefix(cmds, k + 1, nv + NumVertices(cmds[k]), ne + NumIndices(cmds[k]), nc + 1)

\* The loop over the commands of one chunk: [gpu, err, done], done the
\* number of Exec calls made so far in this Flush; the failAt-th Exec call
\* fails if its command can fail.
RECURSIVE ExecChunk(_, _, _, _, _, _, _, _)
ExecChunk(g, cmds, k, es, vs, indexOffsetInBytes, done, failAt) ==
    IF k > Len(cmds) THEN [gpu |-> g, err |-> FALSE, done |-> done]
    ELSE LET r == Exec(g, cmds[k], es, vs, indexOffsetInBytes,
                       done + 1 = failAt /\ CanFail(cmds[k]))
         IN IF r.err THEN [gpu |-> r.gpu, err |-> TRUE, done |-> done + 1]
            ELSE ExecChunk(r.gpu, cmds, k + 1, es, vs,
                           indexOffsetInBytes + NumIndices(cmds[k]) * 2, done + 1, failAt)

\* es[:ne] / es[ne:] and vs[:nv] / vs[nv:], taken only if 0 < ne.
Uploaded(buf, ne, n) == IF 0 < ne THEN Take(buf, n) ELSE <<>>
NotUploaded(buf, ne, n) == IF 0 < ne THEN Drop(buf, n) ELSE buf

\* The log entry of a chunk: what was uploaded and the commands executed.
ChunkEntry(cmds, pre, executed) ==
    [ne |-> pre.ne, nv |-> pre.nv, nc |-> pre.nc, cmds |-> Take(cmds, executed)]

\* The outer loop: [commands, gpu, log, out]; log holds one entry per
\* chunk.  FlushChunk is an iteration once its chunk `pre` is selected,
\* FlushExecuted the rest of it once the Exec loop has run (r).
RECURSIVE FlushLoop(_, _, _, _, _, _, _)
FlushExecuted(cmds, es, vs, log, done, failAt, pre, r) ==
    IF r.err
    THEN [commands |-> cmds, gpu |-> r.gpu,
          log |-> Append(log, ChunkEntry(cmds, pre, r.done - done - 1)), out |-> "error"]
    ELSE FlushLoop(Drop(cmds, pre.nc), NotUploaded(es, pre.ne, pre.ne),
                   NotUploaded(vs, pre.ne, pre.nv \div VertexSizeInFloats), r.gpu,
                   Append(log, ChunkEntry(cmds, pre, r.done - done)), r.done, failAt)

FlushChunk(cmds, es, vs, g, log, done, failAt, pre) ==
    IF pre.panic THEN [commands |-> cmds, gpu |-> g, log |-> log, out |-> "panic"]
    ELSE FlushExecuted(cmds, es, vs, log, done, failAt, pre,
                       ExecChunk(g, Take(cmds, pre.nc), 1, Uploaded(es, pre.ne, pre.ne),
                                 Uploaded(vs, pre.ne, pre.nv \div VertexSizeInFloats),
                                 0, done, failAt))

FlushLoop(cmds, es, vs, g, log, done, failAt) ==
    IF Len(cmds) = 0 THEN [commands |-> cmds, gpu |-> g, log |-> log, out |-> "ok"]
    ELSE FlushChunk(cmds, es, vs, g, log, done, failAt, FlushPrefix(cmds, 1, 0, 0, 0))

\* The end of Flush that leaves nextIndex as it was.
FlushReturn_keepsNextIndex(w, r) ==
    IF r.out = "panic" THEN Panic([w EXCEPT !.gpu = r.gpu, !.log = r.log, !.q.commands = r.commands],
                                  "not reached")
    ELSE IF r.out = "error" THEN Fail([w EXCEPT !.gpu = r.gpu, !.log = r.log, !.q.commands = r.commands],
                                      "exec")
    ELSE [w EXCEPT !.gpu = r.gpu, !.log = r.log,
                   !.q = [EmptyQueue EXCEPT !.nextIndex = w.q.nextIndex]]

\* The end of Flush, r the outcome of its loop.
FlushReturn(w, r) ==
    IF r.out = "panic" THEN Panic([w EXCEPT !.gpu = r.gpu, !.log = r.log, !.q.commands = r.commands],
                                  "not reached")
    ELSE IF r.out = "error" THEN Fail([w EXCEPT !.gpu = r.gpu, !.log = r.log, !.q.commands = r.commands],
                                      "exec")
    ELSE [w EXCEPT !.gpu = r.gpu, !.log = r.log, !.q = EmptyQueue]

commandQueue_Flush(w, failAt) ==
    FlushReturn(w, FlushLoop(w.q.commands, w.q.indices, w.q.vertices, w.gpu, <<>>, 0, failAt))

----------------------------------------------------------------------------
(* graphics.Image: the operations restorable.Image calls on its image.  Each
   one queues a command; Pixels flushes the queue and reads the texture. *)

\* NewImage / NewScreenFramebufferImage for image i: the new object is
\* GRef(i, w.ctx.epoch).
graphics_NewImage(w, i) ==
    commandQueue_Enqueue(w, newImageCommand(GRef(i, w.ctx.epoch), WidthPx, HeightPx))

graphics_NewScreenFramebufferImage(w, i) ==
    commandQueue_Enqueue(w, newScreenFramebufferImageCommand(GRef(i, w.ctx.epoch), WidthPx, HeightPx))

\* ReplacePixels that hands the caller's slice itself to the command.
graphics_ReplacePixels_noCopy(w, r, pixels, x, y, width, height) ==
    commandQueue_Enqueue(w, [replacePixelsCommand(r, pixels, x, y, width, height)
                                EXCEPT !.alias = TRUE])

\* The command gets the bytes the slice holds when the call is made.
graphics_ReplacePixels(w, r, pixels, x, y, width, height) ==
    commandQueue_Enqueue(w, replacePixelsCommand(r, pixels, x, y, width, height))

graphics_DrawImage(w, dst, src, slice, colorm, mode, filter) ==
    EnqueueDrawImageCommand(w, dst, src, slice, QuadIndices(SliceLen(slice)), colorm, mode, filter)

graphics_Dispose(w, r) == commandQueue_Enqueue(w, disposeCommand(r))

\* Pixels() ([]byte, error): w.pixels is the slice returned.
\* The read of the texture, w the world once the queue is flushed.
FramebufferPixels(w, r, readFails) ==
    IF ~Running(w) THEN [w EXCEPT !.pixels = NilPixels]
    ELSE IF readFails THEN [Fail(w, "pixels") EXCEPT !.pixels = NilPixels]
    ELSE [w EXCEPT !.pixels = TexPix(w.gpu, r)]

graphics_Pixels(w, r, failAt, readFails) ==
    FramebufferPixels(commandQueue_Flush(w, failAt), r, readFails)

----------------------------------------------------------------------------
(* restorable.Image (image.go) *)

ImageRef(w, i) == GRef(i, w.images[i].image)

drawImageHistoryItem(image, vertices, colorm, tint, mode, filter) ==
    [image |-> image, vertices |-> vertices, colorm |-> colorm, tint |-> tint,
     mode |-> mode, filter |-> filter]

canMerge(d, image, colorm, tint, mode, filter) ==
    /\ d.image = image
    /\ ColorM_Equals(d.colorm, colorm)
    /\ d.mode = mode
    /\ d.tint = tint
    /\ d.filter = filter

\* makeStale that leaves the history in place.
makeStale_keepsHistory(w, i) ==
    [w EXCEPT !.images[i].basePixels = NilPixels,
              !.images[i].stale = TRUE]

\* makeStale that leaves the cache in place.
makeStale_keepsCache(w, i) ==
    [w EXCEPT !.images[i].drawImageHistory = <<>>,
              !.images[i].stale = TRUE]

makeStale(w, i) ==
    [w EXCEPT !.images[i].basePixels = NilPixels,
              !.images[i].drawImageHistory = <<>>,
              !.images[i].stale = TRUE]

\* dependsOn comparing each entry's source with the receiver instead of the
\* target.
dependsOn_receiver(w, i, target) ==
    \E k \in 1..Len(w.images[i].drawImageHistory) :
        w.images[i].drawImageHistory[k].image = i

dependsOn(w, i, target) ==
    \E k \in 1..Len(w.images[i].drawImageHistory) :
        w.images[i].drawImageHistory[k].image = target

Image_makeStaleIfDependingOn(w, i, target) ==
    IF w.images[i].stale THEN w
    ELSE IF dependsOn(w, i, target) THEN makeStale(w, i)
    ELSE w

hasDependency(w, i) ==
    IF w.images[i].stale THEN FALSE ELSE Len(w.images[i].drawImageHistory) > 0

----------------------------------------------------------------------------
(* The registry (type images) *)

images_add(w, i) == [w EXCEPT !.theImages.images = @ \cup {i}]

\* theImagesForRestoring.add(img): the map of the public package, which is
\* not the map restorable keeps.
theImagesForRestoring_add(w, i) == [w EXCEPT !.theImages.forRestoring = @ \cup {i}]

\* delete(i.images, r)
images_delete(w, i) == [w EXCEPT !.theImages.images = @ \ {i}]

\* The end of theImagesForRestoring.remove(img): delete(i.images, r) under the
\* mutex.
theImagesForRestoring_delete(w, i) == [w EXCEPT !.theImages.forRestoring = @ \ {i}]

\* The loop over the live set; the order of the visits does not matter, each
\* visit changes only the image visited.
RECURSIVE MakeStaleAll(_, _, _)
MakeStaleAll(w, todo, target) ==
    IF todo = {} THEN w
    ELSE LET i == CHOOSE j \in todo : TRUE
         IN MakeStaleAll(Image_makeStaleIfDependingOn(w, i, target), todo \ {i}, target)

\* resetPixelsIfDependingOn that keeps the first target it remembered.
resetPixelsIfDependingOn_keepsFirst(w, r) ==
    IF w.theImages.lastChecked = r THEN w
    ELSE LET w1 == [w EXCEPT !.theImages.lastChecked = IF @ = 0 THEN r ELSE @]
         IN IF r = 0 THEN w1
            ELSE MakeStaleAll(w1, w1.theImages.images, r)

\* resetPixelsIfDependingOn(target), r the value of target.restorable (0: nil).
resetPixelsIfDependingOn(w, r) ==
    IF w.theImages.lastChecked = r THEN w
    ELSE LET w1 == [w EXCEPT !.theImages.lastChecked = r]
         IN IF r = 0 THEN w1
            ELSE MakeStaleAll(w1, w1.theImages.images, r)

\* theImages.makeStaleIfDependingOn(target), as restorable.Image calls it.
theImages_makeStaleIfDependingOn(w, target) == resetPixelsIfDependingOn(w, target)

----------------------------------------------------------------------------
(* restorable.Image: the operations *)

IsRestoringEnabled(w) == w.dom.restoring

restorable_NewImage(w, i, volatile) ==
    LET w1 == graphics_NewImage(w, i)
    IN images_add([w1 EXCEPT !.images[i] =
                      [NoImage EXCEPT !.image = w.ctx.epoch, !.volatile = volatile, !.made = TRUE]], i)

restorable_NewScreenFramebufferImage(w, i) ==
    LET w1 == graphics_NewScreenFramebufferImage(w, i)
    IN images_add([w1 EXCEPT !.images[i] =
                      [NoImage EXCEPT !.image = w.ctx.epoch, !.screen = TRUE, !.made = TRUE]], i)

OutOfRange(x, y, width, height) ==
    \/ x < 0 \/ y < 0 \/ WidthPx <= x \/ HeightPx <= y
    \/ x + width <= 0 \/ y + height <= 0
    \/ WidthPx < x + width \/ HeightPx < y + height

\* The copy loop writing the rectangle at the left edge whatever x is.
CopyPixels_noOffset(base, pixels, x, y, width, height) ==
    [p \in 1..WidthPx |->
        IF y = 0 /\ p - 1 < width THEN pixels[p] ELSE base[p]]

\* The copy loop of ReplacePixels into basePixels.
CopyPixels(base, pixels, x, y, width, height) ==
    [p \in 1..WidthPx |->
        IF y = 0 /\ p - 1 >= x /\ p - 1 < x + width THEN pixels[(p - 1 - x) + 1] ELSE base[p]]

\* ReplacePixels that runs the queue before it returns.
restorable_ReplacePixels_flushes(w, i, pixels, x, y, width, height) ==
    IF width <= 0 \/ height <= 0 THEN Panic(w, "restorable: width/height must be positive")
    ELSE IF OutOfRange(x, y, width, height) THEN Panic(w, "restorable: out of range")
    ELSE LET w1 == theImages_makeStaleIfDependingOn(w, i)
             w2 == commandQueue_Flush(
                       graphics_ReplacePixels(w1, ImageRef(w1, i), pixels, x, y, width, height), 0)
             base == IF w2.images[i].basePixels = NilPixels THEN ZeroPixels
                     ELSE w2.images[i].basePixels
         IN [w2 EXCEPT !.images[i].basePixels = CopyPixels(base, pixels, x, y, width, height),
                       !.images[i].drawImageHistory = <<>>,
                       !.images[i].stale = FALSE]

restorable_ReplacePixels(w, i, pixels, x, y, width, height) ==
    IF width <= 0 \/ height <= 0 THEN Panic(w, "restorable: width/height must be positive")
    ELSE IF OutOfRange(x, y, width, height) THEN Panic(w, "restorable: out of range")
    ELSE LET w1 == theImages_makeStaleIfDependingOn(w, i)
             w2 == graphics_ReplacePixels(w1, ImageRef(w1, i), pixels, x, y, width, height)
             base == IF w2.images[i].basePixels = NilPixels THEN ZeroPixels
                     ELSE w2.images[i].basePixels
         IN [w2 EXCEPT !.images[i].basePixels = CopyPixels(base, pixels, x, y, width, height),
                       !.images[i].drawImageHistory = <<>>,
                       !.images[i].stale = FALSE]

\* appendDrawImageHistory that appends whatever the length of the history.
appendDrawImageHistory_unbounded(w, i, image, vertices, colorm, tint, mode, filter) ==
    LET me == w.images[i]
        n == Len(me.drawImageHistory)
    IN IF me.stale \/ me.volatile \/ me.screen THEN w
       ELSE IF n > 0 /\ canMerge(me.drawImageHistory[n], image, colorm, tint, mode, filter)
            THEN LET a == AppendSlice(w.vb, me.drawImageHistory[n].vertices, vertices)
                 IN [w EXCEPT !.vb = a.vb, !.images[i].drawImageHistory[n].vertices = a.slice]
       ELSE [w EXCEPT !.images[i].drawImageHistory =
                Append(@, drawImageHistoryItem(image, vertices, colorm, tint, mode, filter))]

appendDrawImageHistory(w, i, image, vertices, colorm, tint, mode, filter) ==
    LET me == w.images[i]
        n == Len(me.drawImageHistory)
    IN IF me.stale \/ me.volatile \/ me.screen THEN w
       ELSE IF n > 0 /\ canMerge(me.drawImageHistory[n], image, colorm, tint, mode, filter)
            THEN LET a == AppendSlice(w.vb, me.drawImageHistory[n].vertices, vertices)
                 IN [w EXCEPT !.vb = a.vb, !.images[i].drawImageHistory[n].vertices = a.slice]
       ELSE IF n + 1 > maxDrawImageHistoryNum THEN makeStale(w, i)
       ELSE [w EXCEPT !.images[i].drawImageHistory =
                Append(@, drawImageHistoryItem(image, vertices, colorm, tint, mode, filter))]

\* DrawImage that tells the registry before it looks at the vertices.
restorable_DrawImage_invalidatesFirst(w, i, img, sx0, sy0, sx1, sy1, geom, colorm, tint, mode, filter) ==
    LET w1 == Image_vertices(theImages_makeStaleIfDependingOn(w, i), sx0, sy0, sx1, sy1, tint, geom)
        vs == w1.slice
    IN IF vs = NilSlice THEN w1
       ELSE LET w2 == IF w1.images[img].stale \/ w1.images[img].volatile
                         \/ w1.images[i].screen \/ ~IsRestoringEnabled(w1)
                      THEN makeStale(w1, i)
                      ELSE appendDrawImageHistory(w1, i, img, vs, colorm, tint, mode, filter)
            IN graphics_DrawImage(w2, ImageRef(w2, i), ImageRef(w2, img), vs, colorm, mode, filter)

\* DrawImage that decides on the source's stale flag before the registry has
\* visited the images depending on the target.
restorable_DrawImage_decidesFirst(w, i, img, sx0, sy0, sx1, sy1, geom, colorm, tint, mode, filter) ==
    LET w0 == Image_vertices(w, sx0, sy0, sx1, sy1, tint, geom)
        vs == w0.slice
    IN IF vs = NilSlice THEN w0
       ELSE LET w1 == theImages_makeStaleIfDependingOn(w0, i)
                w2 == IF w0.images[img].stale \/ w1.images[img].volatile
                         \/ w1.images[i].screen \/ ~IsRestoringEnabled(w1)
                      THEN makeStale(w1, i)
                      ELSE appendDrawImageHistory(w1, i, img, vs, colorm, tint, mode, filter)
            IN graphics_DrawImage(w2, ImageRef(w2, i), ImageRef(w2, img), vs, colorm, mode, filter)

restorable_DrawImage(w, i, img, sx0, sy0, sx1, sy1, geom, colorm, tint, mode, filter) ==
    LET w0 == Image_vertices(w, sx0, sy0, sx1, sy1, tint, geom)
        vs == w0.slice
    IN IF vs = NilSlice THEN w0
       ELSE LET w1 == theImages_makeStaleIfDependingOn(w0, i)
                w2 == IF w1.images[img].stale \/ w1.images[img].volatile
                         \/ w1.images[i].screen \/ ~IsRestoringEnabled(w1)
                      THEN makeStale(w1, i)
                      ELSE appendDrawImageHistory(w1, i, img, vs, colorm, tint, mode, filter)
            IN graphics_DrawImage(w2, ImageRef(w2, i), ImageRef(w2, img), vs, colorm, mode, filter)

\* readPixelsFromGPU that clears the history and the stale flag whether or not
\* Pixels returned an error.
AssignPixels_clearsOnError(w, i) ==
    [w EXCEPT !.images[i].basePixels = w.pixels,
              !.images[i].drawImageHistory = <<>>,
              !.images[i].stale = FALSE]

\* readPixelsFromGPU: basePixels is assigned whatever Pixels returned.
\* `i.basePixels, err = image.Pixels()` and what follows it, w the world when
\* Pixels has returned.
AssignPixels(w, i) ==
    IF ~Running(w) THEN [w EXCEPT !.images[i].basePixels = w.pixels]
    ELSE [w EXCEPT !.images[i].basePixels = w.pixels,
                   !.images[i].drawImageHistory = <<>>,
                   !.images[i].stale = FALSE]

readPixelsFromGPU(w, i, failAt, readFails) ==
    AssignPixels(graphics_Pixels(w, ImageRef(w, i), failAt, readFails), i)

\* At which reads the pixels from the GPU before it looks at the coordinates.
AtOrZero(w, i, x, y) ==
    IF x < 0 \/ y < 0 \/ WidthPx <= x \/ HeightPx <= y THEN [w EXCEPT !.ret = 0]
    ELSE IF ~Running(w) THEN [w EXCEPT !.ret = 0]
    ELSE [w EXCEPT !.ret = w.images[i].basePixels[x + 1]]

restorable_At_readsFirst(w, i, x, y, failAt, readFails) ==
    AtOrZero(IF \/ w.images[i].basePixels = NilPixels
                \/ w.images[i].drawImageHistory # <<>>
                \/ w.images[i].stale
             THEN readPixelsFromGPU(w, i, failAt, readFails) ELSE w,
             i, x, y)

\* At that reads the pixels from the GPU whatever the image holds.
restorable_At_alwaysReads(w, i, x, y, failAt, readFails) ==
    IF x < 0 \/ y < 0 \/ WidthPx <= x \/ HeightPx <= y THEN [w EXCEPT !.ret = 0]
    ELSE AtOrZero(readPixelsFromGPU(w, i, failAt, readFails), i, x, y)

\* At(x, y) (color.RGBA, error): w.ret is the colour returned.
\* The return of At, w the world once basePixels is up to date.
PixelAt(w, i, x) ==
    IF ~Running(w) THEN [w EXCEPT !.ret = 0]
    ELSE [w EXCEPT !.ret = w.images[i].basePixels[x + 1]]

restorable_At(w, i, x, y, failAt, readFails) ==
    IF x < 0 \/ y < 0 \/ WidthPx <= x \/ HeightPx <= y THEN [w EXCEPT !.ret = 0]
    ELSE PixelAt(IF \/ w.images[i].basePixels = NilPixels
                    \/ w.images[i].drawImageHistory # <<>>
                    \/ w.images[i].stale
                 THEN readPixelsFromGPU(w, i, failAt, readFails) ELSE w,
                 i, x)

resolveStale(w, i, failAt, readFails) ==
    IF ~IsRestoringEnabled(w) THEN w
    ELSE IF w.images[i].volatile THEN w
    ELSE IF w.images[i].screen THEN w
    ELSE IF ~w.images[i].stale THEN w
    ELSE readPixelsFromGPU(w, i, failAt, readFails)

\* The replay loop of restore, from history item k on.
RECURSIVE ReplayHistory(_, _, _, _)
ReplayHistory(w, i, k, gimg) ==
    IF k > Len(w.images[i].drawImageHistory) \/ ~Running(w) THEN w
    ELSE LET c == w.images[i].drawImageHistory[k]
         IN IF hasDependency(w, c.image) THEN Panic(w, "not reached")
            ELSE LET w1 == graphics_DrawImage(w, gimg, ImageRef(w, c.image), c.vertices,
                                              c.colorm, c.mode, c.filter)
                 IN ReplayHistory([w1 EXCEPT !.images[i].drawImageHistory[k].vertices = w1.slice],
                                  i, k + 1, gimg)

\* restore of a screen or volatile image, w the world once the new image is
\* made.
RestoreCleared(w, i) ==
    [w EXCEPT !.images[i].image = w.ctx.epoch,
              !.images[i].basePixels = NilPixels,
              !.images[i].drawImageHistory = <<>>,
              !.images[i].stale = FALSE]

\* The end of restore that reads the pixels and leaves i.image as it was.
RestoreRead_keepsImage(w, i, gimg, failAt, readFails) ==
    IF ~Running(w) THEN w
    ELSE AssignPixels(graphics_Pixels(w, gimg, failAt, readFails), i)

\* The end of restore (`i.image = gimg` and the read of the pixels), w the
\* world once the history is replayed.
RestoreRead(w, i, gimg, failAt, readFails) ==
    IF ~Running(w) THEN w
    ELSE AssignPixels(graphics_Pixels([w EXCEPT !.images[i].image = gimg.ep], gimg,
                                      failAt, readFails), i)

\* restore that rebuilds a stale image like any other.
restorable_restore_ignoresStale(w, i, failAt, readFails) ==
    IF w.images[i].screen THEN RestoreCleared(graphics_NewScreenFramebufferImage(w, i), i)
    ELSE IF w.images[i].volatile THEN RestoreCleared(graphics_NewImage(w, i), i)
    ELSE RestoreRead(
             ReplayHistory(
                 graphics_ReplacePixels(graphics_NewImage(w, i), GRef(i, w.ctx.epoch),
                     IF w.images[i].basePixels # NilPixels THEN w.images[i].basePixels
                     ELSE ZeroPixels,
                     0, 0, WidthPx, HeightPx),
                 i, 1, GRef(i, w.ctx.epoch)),
             i, GRef(i, w.ctx.epoch), failAt, readFails)

\* restore that tests the stale flag before anything else.
restorable_restore_staleFirst(w, i, failAt, readFails) ==
    IF w.images[i].stale
    THEN Fail(w, "restorable: pixels must not be stale when restoring")
    ELSE IF w.images[i].screen THEN RestoreCleared(graphics_NewScreenFramebufferImage(w, i), i)
    ELSE IF w.images[i].volatile THEN RestoreCleared(graphics_NewImage(w, i), i)
    ELSE RestoreRead(
             ReplayHistory(
                 graphics_ReplacePixels(graphics_NewImage(w, i), GRef(i, w.ctx.epoch),
                     IF w.images[i].basePixels # NilPixels THEN w.images[i].basePixels
                     ELSE ZeroPixels,
                     0, 0, WidthPx, HeightPx),
                 i, 1, GRef(i, w.ctx.epoch)),
             i, GRef(i, w.ctx.epoch), failAt, readFails)

restorable_restore(w, i, failAt, readFails) ==
    IF w.images[i].screen THEN RestoreCleared(graphics_NewScreenFramebufferImage(w, i), i)
    ELSE IF w.images[i].volatile THEN RestoreCleared(graphics_NewImage(w, i), i)
    ELSE IF w.images[i].stale
         THEN Fail(w, "restorable: pixels must not be stale when restoring")
    ELSE RestoreRead(
             ReplayHistory(
                 graphics_ReplacePixels(graphics_NewImage(w, i), GRef(i, w.ctx.epoch),
                     IF w.images[i].basePixels # NilPixels THEN w.images[i].basePixels
                     ELSE ZeroPixels,
                     0, 0, WidthPx, HeightPx),
                 i, 1, GRef(i, w.ctx.epoch)),
             i, GRef(i, w.ctx.epoch), failAt, readFails)

\* Dispose that does not tell the registry.
restorable_Dispose_noInvalidate(w, i) ==
    LET w2 == graphics_Dispose(w, ImageRef(w, i))
    IN images_delete([w2 EXCEPT !.images[i].image = NilImage,
                                !.images[i].basePixels = NilPixels,
                                !.images[i].drawImageHistory = <<>>,
                                !.images[i].stale = FALSE], i)

restorable_Dispose(w, i) ==
    LET w1 == theImages_makeStaleIfDependingOn(w, i)
        w2 == graphics_Dispose(w1, ImageRef(w1, i))
    IN images_delete([w2 EXCEPT !.images[i].image = NilImage,
                                !.images[i].basePixels = NilPixels,
                                !.images[i].drawImageHistory = <<>>,
                                !.images[i].stale = FALSE], i)

\* restorable.Image.Fill(clr): the whole image becomes clr.  r is the
\* receiver (0: a nil receiver, which Fill dereferences).
restorable_Fill(w, r, clr) ==
    IF r = 0 THEN Panic(w, "invalid memory address or nil pointer dereference")
    ELSE restorable_ReplacePixels(w, r, [p \in 1..WidthPx |-> clr], 0, 0, WidthPx, HeightPx)

\* restorable.Image.Size(), r the receiver: dereferences it.
restorable_Size(w, r) ==
    IF r = 0 THEN Panic(w, "invalid memory address or nil pointer dereference") ELSE w

----------------------------------------------------------------------------
(* The registry: the loops over every image *)

\* The orders in which a range over the map may visit a set of images.
Orders(S) == {o \in [1..Cardinality(S) -> S] : \A a, b \in 1..Cardinality(S) : o[a] = o[b] => a = b}

\* The loop of resolveStalePixels leaving after the first image.
RECURSIVE ResolveEach_first(_, _, _, _)
ResolveEach_first(w, order, k, failAt) ==
    IF k > Len(order) \/ k > 1 \/ ~Running(w) THEN w
    ELSE ResolveEach_first(resolveStale(w, order[k], failAt, FALSE), order, k + 1, failAt)

RECURSIVE ResolveEach(_, _, _, _)
ResolveEach(w, order, k, failAt) ==
    IF k > Len(order) \/ ~Running(w) THEN w
    ELSE ResolveEach(resolveStale(w, order[k], failAt, FALSE), order, k + 1, failAt)

images_resolveStalePixels(w, order, failAt) ==
    ResolveEach([w EXCEPT !.theImages.lastChecked = 0], order, 1, failAt)

RECURSIVE RestoreEach(_, _, _, _)
RestoreEach(w, list, k, failAt) ==
    IF k > Len(list) \/ ~Running(w) THEN w
    ELSE RestoreEach(restorable_restore(w, list[k], failAt, FALSE), list, k + 1, failAt)

images_restore(w, order, failAt) ==
    LET With(i) == hasDependency(w, i)
        Without(i) == ~hasDependency(w, i)
        imagesWithoutDependency == SelectSeq(order, Without)
        imagesWithDependency == SelectSeq(order, With)
    IN RestoreEach(RestoreEach(w, imagesWithoutDependency, 1, failAt),
                   imagesWithDependency, 1, failAt)

\* img.Restore(context) as the public registry calls it on each image of its
\* map: restore begins with i.image.Size(), and i.image is nil once the image
\* is disposed.
restorable_Restore(w, i) ==
    IF ~IsLive(w, i) THEN Panic(w, "invalid memory address or nil pointer dereference")
    ELSE restorable_restore(w, i, 0, FALSE)

RECURSIVE RestoreEachRegistered(_, _, _)
RestoreEachRegistered(w, list, k) ==
    IF k > Len(list) \/ ~Running(w) THEN w
    ELSE RestoreEachRegistered(restorable_Restore(w, list[k]), list, k + 1)

\* theImagesForRestoring.restore(context), order the order of the range over
\* its map.
theImagesForRestoring_restore(w, order) ==
    LET With(i) == hasDependency(w, i)
        Without(i) == ~hasDependency(w, i)
    IN RestoreEachRegistered(RestoreEachRegistered(w, SelectSeq(order, Without), 1),
                             SelectSeq(order, With), 1)

----------------------------------------------------------------------------
(* ebiten.Image: the public wrapper (handle i wraps restorable image i) *)

\* The field `restorable` of handle i: the image, or 0 for nil.
Restorable(w, i) == IF w.eimg[i] = "set" THEN i ELSE 0

ebiten_NewImage(w, i) ==
    LET w1 == restorable_NewImage(w, i, FALSE)
        w2 == restorable_Fill(w1, i, 0)
    IN [theImagesForRestoring_add(w2, i) EXCEPT !.eimg[i] = "set"]

ebiten_Clear(w, i) ==
    restorable_Fill(resetPixelsIfDependingOn(w, Restorable(w, i)), Restorable(w, i), 0)

ebiten_Fill(w, i, clr) ==
    restorable_Fill(resetPixelsIfDependingOn(w, Restorable(w, i)), Restorable(w, i), clr)

ebiten_DrawImage(w, i, image, sx0, sy0, sx1, sy1, geom, colorm, mode) ==
    IF Restorable(w, i) = 0 THEN w
    ELSE LET w1 == resetPixelsIfDependingOn(w, Restorable(w, i))
             w2 == restorable_Size(w1, Restorable(w1, image))
         IN IF ~Running(w2) THEN w2
            ELSE IF VerticesIsNil(sx0, sy0, sx1, sy1) THEN w2
            ELSE IF i = image
                 THEN Panic(w2, "ebiten: Image.DrawImage: image must be different from the receiver")
            ELSE restorable_DrawImage(w2, i, image, sx0, sy0, sx1, sy1, geom, colorm, Nil,
                                      mode, "nearest")

\* `if err != nil { panic(err) }`
PanicOnError(w) == IF w.out.kind = "error" THEN Panic(w, w.out.msg) ELSE w

ebiten_At(w, i, x, y, failAt, readFails) ==
    IF Restorable(w, i) = 0 THEN [w EXCEPT !.ret = 0]
    ELSE PanicOnError(restorable_At(w, i, x, y, failAt, readFails))

\* Dispose that does not set the field restorable to nil.
ebiten_Dispose_keepsField(w, i) ==
    IF Restorable(w, i) = 0 THEN w
    ELSE restorable_Dispose(resetPixelsIfDependingOn(w, Restorable(w, i)), i)

ebiten_Dispose(w, i) ==
    IF Restorable(w, i) = 0 THEN w
    ELSE LET w1 == resetPixelsIfDependingOn(w, Restorable(w, i))
         IN [restorable_Dispose(w1, i) EXCEPT !.eimg[i] = "nil"]

ebiten_ReplacePixels(w, i, p) ==
    IF Restorable(w, i) = 0 THEN w
    ELSE LET w1 == resetPixelsIfDependingOn(w, Restorable(w, i))
         IN IF Len(p) # WidthPx * HeightPx
            THEN Panic(w1, "ebiten: len(p) was wrong")
            ELSE restorable_ReplacePixels(w1, i, p, 0, 0, WidthPx, HeightPx)

----------------------------------------------------------------------------
(* The state machine: restorable.Image and the graphics command queue *)

\* Input domains of the specifications: how many images are made, the
\* rectangles <<x, width>> and colours ReplacePixels is called with, the source
\* rectangles <<sx0, sx1>> and options DrawImage is called with, and which Exec
\* call of a Flush may fail (0: none); maxGets, maxQueued and losses bound the
\* vertex slots handed out, the commands queued and the context losses.
FullRect == <<0, WidthPx>>
EmptyRect == <<0, 0>>
\* The left part of the image, a rectangle of no width, and one that sticks
\* out of the image on the right.
LeftRect == <<0, WidthPx - 1>>
NoWidthRect == <<0, 0>>
OutsideRect == <<1, WidthPx>>
SubRects == {FullRect, LeftRect, NoWidthRect, OutsideRect}

DomMain ==
    [restoring |-> TRUE, maxImages |-> NumImages - 1, volatiles |-> {FALSE},
     replaceRects |-> SubRects, colors |-> {MaxColor},
     rects |-> {FullRect, EmptyRect}, colorms |-> {"id"}, modes |-> {"copy"},
     tints |-> {Nil}, failAts |-> {0, 1}, readFails |-> {FALSE, TRUE},
     maxGets |-> MaxGets, maxQueued |-> MaxQueued, losses |-> MaxLosses]

\* Images whose content comes from ReplacePixels only.
RightRect == <<1, WidthPx - 1>>
DomReplace == [DomMain EXCEPT !.colors = Color, !.replaceRects = SubRects \cup {RightRect}]

\* The command queue on its own: draws of one or two quads.
DomQueue ==
    [DomMain EXCEPT !.replaceRects = {FullRect}, !.modes = {"copy", "lighter"},
                    !.tints = {Nil, "red"}, !.colorms = {"id", "zero"}]

\* Three images drawn from one another, and no failing call.
DomChain ==
    [DomMain EXCEPT !.maxImages = NumImages, !.replaceRects = {FullRect},
                    !.rects = {FullRect}, !.failAts = {0}, !.readFails = {FALSE},
                    !.maxGets = MaxGets - 1]

\* A source image that is rewritten while draws from it are still queued: no
\* failing call, whole-image rectangles, a longer queue.
DomSnapshot ==
    [DomMain EXCEPT !.replaceRects = {FullRect}, !.rects = {FullRect},
                    !.failAts = {0}, !.readFails = {FALSE}, !.maxGets = MaxGets - 1,
                    !.maxQueued = MaxQueued + 1]

NoBefore == [i \in Img |-> NilPixels]

\* The most recent call: the operation, its receiver and source image, its
\* rectangle, how the receiver answered a pixel read before the call (PreTag),
\* which images' histories referenced the receiver before the call, and how the
\* call ended.
\* For the command queue it also keeps the run of draws with one tuple that
\* the call belongs to (run: its length, nv / ni: the vertices and indices
\* the run was called with, q0: the commands queued before it, split: a later
\* draw of the run crossed the index buffer's end, premerge: its first draw was
\* merged into a command queued before it), what was enqueued since the last
\* Flush (enqv, enqi), and the chunks a Flush uploaded and executed (log).
\* p: the slice a ReplacePixels call was given.  settled: what every live image
\* showed before the call (kept by the calls of SpecSnapshot only).
NoLast == [op |-> "init", img |-> 0, src |-> 0, x |-> 0, y |-> 0, width |-> 0, pre |-> "none",
           p |-> <<>>, settled |-> NoBefore, checked |-> 0,
           dependents |-> {}, out |-> NoOut, ret |-> 0,
           tuple |-> <<>>, run |-> 0, nv |-> 0, ni |-> 0, q0 |-> 0, split |-> FALSE,
           premerge |-> FALSE, enqv |-> 0, enqi |-> 0, stale |-> {}, splits |-> <<>>, failed |-> <<>>,
           log |-> <<>>]

\* The world when the program starts: no image, an empty queue, no texture.
World0(d) ==
    [images |-> [i \in Img |-> NoImage], eimg |-> [i \in Img |-> "none"],
     theImages |-> [images |-> {}, lastChecked |-> 0, forRestoring |-> {}], q |-> EmptyQueue,
     vb |-> [head |-> 0, mem |-> <<>>], gpu |-> [i \in Img |-> NoTexture],
     ctx |-> [state |-> "ok", epoch |-> 0, losses |-> 0, before |-> NoBefore],
     dom |-> d, out |-> NoOut, ret |-> 0, slice |-> NilSlice, pixels |-> NilPixels,
     log |-> <<>>]

\* The initial state in which the world is w.
InitFrom(w) ==
    /\ images = w.images
    /\ eimg = w.eimg
    /\ theImages = w.theImages
    /\ theCommandQueue = w.q
    /\ theVerticesBackend = w.vb
    /\ gpu = w.gpu
    /\ ctx = w.ctx
    /\ dom = w.dom
    /\ last = NoLast

InitWith(d) == InitFrom(World0(d))

Init == InitWith(DomMain)

\* How image i answers a pixel read now.
PreTag(i) ==
    IF ~images[i].made THEN "none"
    ELSE IF images[i].image = NilImage THEN "disposed"
    ELSE IF images[i].stale THEN "stale"
    ELSE IF images[i].drawImageHistory # <<>>
         THEN (IF images[i].basePixels # NilPixels THEN "cache+history" ELSE "history")
    ELSE IF images[i].basePixels # NilPixels THEN "cache"
    ELSE "fresh"

\* The state after a call that took World to w.
Commit(w, l) ==
    /\ images' = w.images
    /\ eimg' = w.eimg
    /\ theImages' = w.theImages
    /\ theCommandQueue' = w.q
    /\ theVerticesBackend' = w.vb
    /\ gpu' = w.gpu
    /\ ctx' = w.ctx
    /\ dom' = w.dom
    /\ last' = [l EXCEPT !.out = w.out, !.ret = w.ret, !.log = w.log]

\* Image y's history has an entry whose source is image x.
References(y, x) ==
    \E k \in 1..Len(images[y].drawImageHistory) : images[y].drawImageHistory[k].image = x

Dependents(i) == {y \in Img : images[y].made /\ References(y, i)}

Call(op, i, src) == [NoLast EXCEPT !.op = op, !.img = i, !.src = src,
                                   !.pre = IF i \in Img THEN PreTag(i) ELSE "none",
                                   !.dependents = IF i \in Img THEN Dependents(i) ELSE {}]

\* The program runs (no panic so far, no error returned) on a live context.
Alive == last.out = NoOut /\ ctx.state = "ok"

Live == {i \in Img : IsLive(World, i)}
Unmade == {i \in Img : ~images[i].made /\ i <= dom.maxImages}
Room == Len(theCommandQueue.commands) < dom.maxQueued

NewImage(volatile) ==
    /\ Alive /\ Room /\ Unmade # {}
    /\ LET i == CHOOSE j \in Unmade : \A k \in Unmade : j <= k
       IN Commit(restorable_NewImage(World, i, volatile), Call("NewImage", i, 0))

ReplacePixels(i, pixels, x, y, width, height) ==
    /\ Alive /\ Room /\ i \in Live
    /\ Commit(restorable_ReplacePixels(World, i, pixels, x, y, width, height),
              [Call("ReplacePixels", i, 0) EXCEPT !.x = x, !.width = width, !.p = pixels])

\* The caller overwrites the slice it passed to the ReplacePixels call that has
\* just returned: whatever still holds that slice sees the new bytes.
callerWrites(w, p) ==
    LET n == Len(w.q.commands)
    IN IF n > 0 /\ w.q.commands[n].kind = "replace" /\ w.q.commands[n].alias
       THEN [w EXCEPT !.q.commands[n].pixels = p]
       ELSE w

ModifyBuffer(p) ==
    /\ Alive /\ last.op = "ReplacePixels" /\ Len(p) = Len(last.p) /\ p # last.p
    /\ Commit(callerWrites(World, p), [last EXCEPT !.op = "ModifyBuffer"])

DrawImage(i, img, sx0, sy0, sx1, sy1, geom, colorm, tint, mode, filter) ==
    /\ Alive /\ Room /\ i \in Live /\ img \in Live /\ i # img
    /\ theVerticesBackend.head < dom.maxGets
    /\ Commit(restorable_DrawImage(World, i, img, sx0, sy0, sx1, sy1, geom, colorm, tint, mode, filter),
              [Call("DrawImage", i, img) EXCEPT !.x = sx0, !.width = sx1 - sx0,
                                                !.tuple = <<i, img, colorm, tint, mode, filter>>])

At(i, x, y, failAt, readFails) ==
    /\ Alive /\ i \in Live
    /\ Commit(restorable_At(World, i, x, y, failAt, readFails),
              [Call("At", i, 0) EXCEPT !.x = x])

Dispose(i) ==
    /\ Alive /\ Room /\ i \in Live
    /\ Commit(restorable_Dispose(World, i), Call("Dispose", i, 0))

\* graphics.FlushCommands()
FlushCommands(failAt) ==
    /\ Alive /\ theCommandQueue.commands # <<>>
    /\ Commit(commandQueue_Flush(World, failAt), Call("FlushCommands", 0, 0))

\* The end of a frame: theImages.resolveStalePixels
ResolveStalePixels(order, failAt) ==
    /\ Alive /\ \E i \in theImages.images : images[i].stale
    /\ Commit(images_resolveStalePixels(World, order, failAt),
              [Call("ResolveStalePixels", 0, 0) EXCEPT
                  !.stale = {i \in theImages.images : images[i].stale}])

\* What every texture holds once the queued commands have run.
Settled(w) == FlushLoop(w.q.commands, w.q.indices, w.q.vertices, w.gpu, <<>>, 0, 0).gpu

\* The GL context is lost: every texture is gone.  ctx.before keeps what each
\* live image showed.
ContextLost ==
    /\ Alive /\ ctx.losses < dom.losses /\ Live # {}
    /\ LET g == Settled(World)
       IN Commit([World EXCEPT !.gpu = [i \in Img |-> NoTexture],
                               !.ctx = [state |-> "lost", epoch |-> ctx.epoch + 1,
                                        losses |-> ctx.losses + 1,
                                        before |-> [i \in Img |->
                                            IF i \in Live THEN TexPix(g, ImageRef(World, i))
                                            ELSE NilPixels]]],
                 Call("ContextLost", 0, 0))

\* The start of the next frame: theImages.restore
Restore(order, failAt) ==
    /\ last.out = NoOut /\ ctx.state = "lost"
    /\ Commit(images_restore([World EXCEPT !.ctx.state = "ok"], order, failAt),
              [Call("Restore", 0, 0) EXCEPT
                  !.stale = {i \in theImages.images : images[i].stale}])

Next ==
    \/ \E v \in dom.volatiles : NewImage(v)
    \/ \E i \in Img, r \in dom.replaceRects :
         \E pixels \in [1..r[2] -> dom.colors] : ReplacePixels(i, pixels, r[1], 0, r[2], HeightPx)
    \/ \E i, img \in Img, r \in dom.rects, c \in dom.colorms, t \in dom.tints, m \in dom.modes :
         DrawImage(i, img, r[1], 0, r[2], HeightPx, 0, c, t, m, "nearest")
    \/ \E i \in Img, x \in Pix, f \in dom.failAts, rf \in dom.readFails : At(i, x, 0, f, rf)
    \/ \E i \in Img : Dispose(i)
    \/ \E f \in dom.failAts : FlushCommands(f)
    \/ \E o \in Orders(theImages.images), f \in dom.failAts : ResolveStalePixels(o, f)
    \/ ContextLost
    \/ \E o \in Orders(theImages.images), f \in dom.failAts : Restore(o, f)

Spec == Init /\ [][Next]_vars

\* Images that are only ever written by ReplacePixels.
InitReplace == InitWith(DomReplace)

NextReplace ==
    \/ \E v \in dom.volatiles : NewImage(v)
    \/ \E i \in Img, r \in dom.replaceRects :
         \E pixels \in [1..r[2] -> dom.colors] : ReplacePixels(i, pixels, r[1], 0, r[2], HeightPx)
    \/ \E r \in dom.replaceRects : \E p \in [1..r[2] -> dom.colors] : ModifyBuffer(p)
    \/ \E i \in Img, x \in Pix, f \in dom.failAts, rf \in dom.readFails : At(i, x, 0, f, rf)
    \/ \E f \in dom.failAts : FlushCommands(f)
    \/ ContextLost
    \/ \E o \in Orders(theImages.images), f \in dom.failAts : Restore(o, f)

SpecReplace == InitReplace /\ [][NextReplace]_vars

\* The command queue on its own.  Two images exist, the second one filled.
WorldQueue ==
    commandQueue_Flush(
        restorable_ReplacePixels(
            restorable_NewImage(restorable_NewImage(World0(DomQueue), 1, FALSE), 2, FALSE),
            2, [p \in 1..WidthPx |-> MaxColor], 0, 0, WidthPx, HeightPx),
        0)

InitQueue == InitFrom(WorldQueue)

\* What was enqueued since the last Flush.
Enqueued == IF last.op = "Flush" THEN [v |-> 0, i |-> 0] ELSE [v |-> last.enqv, i |-> last.enqi]

\* The positions in the queue of the commands at which EnqueueDrawImageCommand
\* has reset tmpNumIndices and nextIndex since the last Flush.
Splits == IF last.op = "Flush" THEN <<>> ELSE last.splits

\* theCommandQueue.EnqueueDrawImageCommand with a slice of n quads.
EnqueueDraw(dst, src, n, tint, color, mode, filter) ==
    /\ Alive /\ dst \in Live /\ src \in Live /\ dst # src
    /\ theCommandQueue.nindices <= indicesNum
    /\ LET vertices == [own |-> TRUE, at |-> 0, n |-> 0,
                        quads |-> [k \in 1..n |-> Quad(0, 0, WidthPx, HeightPx, tint, 0)]]
           indices == QuadIndices(n)
           nfloats == n * QuadVerticesNum * VertexSizeInFloats
           cs == theCommandQueue.commands
           tuple == <<dst, src, color, tint, mode, filter>>
           same == last.op = "EnqueueDrawImageCommand" /\ last.tuple = tuple
           split == theCommandQueue.tmpNumIndices + Len(indices) > indicesNum
           mergeable == /\ Len(cs) > 0
                        /\ CanMerge(cs[Len(cs)], ImageRef(World, dst), ImageRef(World, src),
                                    color, mode, filter)
       IN Commit(EnqueueDrawImageCommand(World, ImageRef(World, dst), ImageRef(World, src),
                                         vertices, indices, color, mode, filter),
                 [Call("EnqueueDrawImageCommand", dst, src) EXCEPT
                     !.tuple = tuple,
                     !.run = IF same THEN last.run + 1 ELSE 1,
                     !.nv = IF same THEN last.nv + nfloats ELSE nfloats,
                     !.ni = IF same THEN last.ni + Len(indices) ELSE Len(indices),
                     !.q0 = IF same THEN last.q0 ELSE Len(cs),
                     !.split = same /\ (last.split \/ split),
                     !.premerge = IF same THEN last.premerge ELSE mergeable /\ ~split,
                     !.enqv = Enqueued.v + nfloats,
                     !.enqi = Enqueued.i + Len(indices),
                     !.splits = IF split THEN Append(Splits, Len(cs) + 1) ELSE Splits])

\* A command other than a draw is enqueued.
EnqueueReplace(i, pixels) ==
    /\ Alive /\ i \in Live
    /\ theCommandQueue.nindices <= indicesNum
    /\ Len(theCommandQueue.commands) <= MaxQueued
    /\ Commit(restorable_ReplacePixels(World, i, pixels, 0, 0, WidthPx, HeightPx),
              [Call("ReplacePixels", i, 0) EXCEPT !.width = WidthPx,
                                                  !.enqv = Enqueued.v, !.enqi = Enqueued.i,
                                                  !.splits = Splits])

Flush(failAt) ==
    /\ Alive /\ theCommandQueue.commands # <<>>
    /\ Commit(commandQueue_Flush(World, failAt),
              [Call("Flush", 0, 0) EXCEPT !.enqv = Enqueued.v, !.enqi = Enqueued.i,
                                          !.splits = Splits])

NextQueue ==
    \/ \E dst, src \in Img, n \in 1..2, t \in dom.tints, c \in dom.colorms, m \in dom.modes :
         dst < src /\ EnqueueDraw(dst, src, n, t, c, m, "nearest")
    \/ \E dst, src \in Img : dst > src /\ EnqueueDraw(dst, src, 1, Nil, "id", "copy", "nearest")
    \/ \E i \in Img : EnqueueReplace(i, [p \in 1..WidthPx |-> MaxColor])
    \/ \E f \in 0..2 : Flush(f)

SpecQueue == InitQueue /\ [][NextQueue]_vars

\* The command queue with a caller that calls Flush again after Flush has
\* returned an error; failed: the log of the Flush that returned the error.
FlushAfterError(failAt) ==
    /\ last.op = "Flush" /\ last.out.kind = "error" /\ ctx.state = "ok"
    /\ Commit(commandQueue_Flush(World, failAt),
              [Call("Flush", 0, 0) EXCEPT !.enqv = last.enqv, !.enqi = last.enqi,
                                          !.splits = last.splits, !.failed = last.log])

NextRetry ==
    \/ NextQueue
    \/ \E f \in 0..2 : FlushAfterError(f)

SpecRetry == InitQueue /\ [][NextRetry]_vars

\* The public API: calls on ebiten.Image handles.
InitEbiten == InitWith(DomMain)

\* The coordinates At is called with: inside the image and one step outside it
\* on every side.
ReadXs == -1..WidthPx
ReadYs == -1..HeightPx

Handles == {i \in Img : eimg[i] # "none"}

\* A call on a handle; checked: the registry's lastChecked before the call.
ECall(op, i, src) == [Call(op, i, src) EXCEPT !.checked = theImages.lastChecked]

ENewImage ==
    /\ Alive /\ Room /\ Unmade # {}
    /\ LET i == CHOOSE j \in Unmade : \A k \in Unmade : j <= k
       IN Commit(ebiten_NewImage(World, i), ECall("ebiten.NewImage", i, 0))

EClear(i) ==
    /\ Alive /\ Room /\ i \in Handles
    /\ Commit(ebiten_Clear(World, i), ECall("ebiten.Clear", i, 0))

EFill(i, clr) ==
    /\ Alive /\ Room /\ i \in Handles
    /\ Commit(ebiten_Fill(World, i, clr), ECall("ebiten.Fill", i, 0))

EDrawImage(i, image, sx0, sy0, sx1, sy1, geom, colorm, mode) ==
    /\ Alive /\ Room /\ i \in Handles /\ image \in Handles
    /\ theVerticesBackend.head < dom.maxGets
    /\ Commit(ebiten_DrawImage(World, i, image, sx0, sy0, sx1, sy1, geom, colorm, mode),
              [ECall("ebiten.DrawImage", i, image) EXCEPT !.x = sx0, !.width = sx1 - sx0])

EAt(i, x, y, failAt, readFails) ==
    /\ Alive /\ i \in Handles
    /\ Commit(ebiten_At(World, i, x, y, failAt, readFails),
              [ECall("ebiten.At", i, 0) EXCEPT !.x = x, !.y = y])

EDispose(i) ==
    /\ Alive /\ Room /\ i \in Handles
    /\ Commit(ebiten_Dispose(World, i), ECall("ebiten.Dispose", i, 0))

EReplacePixels(i, p) ==
    /\ Alive /\ Room /\ i \in Handles
    /\ Commit(ebiten_ReplacePixels(World, i, p),
              [ECall("ebiten.ReplacePixels", i, 0) EXCEPT !.width = Len(p)])

NextEbiten ==
    \/ ENewImage
    \/ \E i \in Img : EClear(i)
    \/ \E i \in Img, clr \in dom.colors : EFill(i, clr)
    \/ \E i, image \in Img, r \in dom.rects, c \in dom.colorms, m \in dom.modes :
         EDrawImage(i, image, r[1], 0, r[2], HeightPx, 0, c, m)
    \/ \E i \in Img, x \in ReadXs, y \in ReadYs, f \in dom.failAts, rf \in dom.readFails :
         EAt(i, x, y, f, rf)
    \/ \E i \in Img : EDispose(i)
    \/ \E i \in Img, n \in {WidthPx - 1, WidthPx} :
         EReplacePixels(i, [p \in 1..n |-> MaxColor])
    \/ \E f \in dom.failAts : FlushCommands(f)
    \/ \E o \in Orders(theImages.images), f \in dom.failAts : ResolveStalePixels(o, f)

SpecEbiten == InitEbiten /\ [][NextEbiten]_vars

\* The finalizer of a handle that has become unreachable runs
\* theImagesForRestoring.remove on another thread, in three steps between
\* which the rendering thread may run: Dispose's resetPixelsIfDependingOn
\* (under the mutex), the rest of Dispose (no mutex held), and the delete
\* (under the mutex).  The rendering thread draws with the handles it still
\* holds and scans the registry; each scan holds the mutex throughout.
DomFinalizer ==
    [DomMain EXCEPT !.maxImages = NumImages, !.failAts = {0}, !.readFails = {FALSE}]

InitFinalizer == InitWith(DomFinalizer)

Held == {i \in Img : eimg[i] = "set"}

FinalizerReset(i) ==
    /\ Alive /\ i \in Held
    /\ Commit([resetPixelsIfDependingOn(World, i) EXCEPT !.eimg[i] = "finalizing"],
              ECall("remove.resetPixelsIfDependingOn", i, 0))

FinalizerDispose(i) ==
    /\ Alive /\ Room /\ eimg[i] = "finalizing"
    /\ Commit([restorable_Dispose(World, i) EXCEPT !.eimg[i] = "removing"],
              ECall("remove.Dispose", i, 0))

FinalizerDelete(i) ==
    /\ Alive /\ eimg[i] = "removing"
    /\ Commit([theImagesForRestoring_delete(World, i) EXCEPT !.eimg[i] = "nil"],
              ECall("remove.delete", i, 0))

ScanResolveStalePixels(order) ==
    /\ Alive /\ theImages.forRestoring # {}
    /\ Commit(images_resolveStalePixels(World, order, 0), Call("resolveStalePixels", 0, 0))

ScanRestore(order) ==
    /\ last.out = NoOut /\ ctx.state = "lost"
    /\ Commit(theImagesForRestoring_restore([World EXCEPT !.ctx.state = "ok"], order),
              Call("restore", 0, 0))

NextFinalizer ==
    \/ ENewImage
    \/ \E i, image \in Held : EDrawImage(i, image, 0, 0, WidthPx, HeightPx, 0, "id", "copy")
    \/ FlushCommands(0)
    \/ \E i \in Img : FinalizerReset(i)
    \/ \E i \in Img : FinalizerDispose(i)
    \/ \E i \in Img : FinalizerDelete(i)
    \/ \E o \in Orders(theImages.forRestoring) : ScanResolveStalePixels(o)
    \/ ContextLost
    \/ \E o \in Orders(theImages.forRestoring) : ScanRestore(o)

SpecFinalizer == InitFinalizer /\ [][NextFinalizer]_vars

\* A source is rewritten after it was drawn from.
InitSnapshot == InitWith(DomSnapshot)

\* What every live image shows once the queued commands have run.
SettledNow ==
    [j \in Img |-> IF j \in Live THEN TexPix(Settled(World), ImageRef(World, j)) ELSE NilPixels]

SnapReplacePixels(i, pixels, x, y, width, height) ==
    /\ Alive /\ Room /\ i \in Live
    /\ Commit(restorable_ReplacePixels(World, i, pixels, x, y, width, height),
              [Call("ReplacePixels", i, 0) EXCEPT !.x = x, !.width = width, !.p = pixels,
                                                  !.settled = SettledNow])

SnapDrawImage(i, img, sx0, sy0, sx1, sy1, geom, colorm, tint, mode, filter) ==
    /\ Alive /\ Room /\ i \in Live /\ img \in Live /\ i # img
    /\ theVerticesBackend.head < dom.maxGets
    /\ Commit(restorable_DrawImage(World, i, img, sx0, sy0, sx1, sy1, geom, colorm, tint, mode, filter),
              [Call("DrawImage", i, img) EXCEPT !.x = sx0, !.width = sx1 - sx0,
                                                !.settled = SettledNow])

SnapAt(i, x, y, failAt, readFails) ==
    /\ Alive /\ i \in Live
    /\ Commit(restorable_At(World, i, x, y, failAt, readFails),
              [Call("At", i, 0) EXCEPT !.x = x, !.settled = SettledNow])

NextSnapshot ==
    \/ \E v \in dom.volatiles : NewImage(v)
    \/ \E i \in Img, r \in dom.replaceRects :
         \E pixels \in [1..r[2] -> dom.colors] : SnapReplacePixels(i, pixels, r[1], 0, r[2], HeightPx)
    \/ \E i, img \in Img, r \in dom.rects, c \in dom.colorms, t \in dom.tints, m \in dom.modes :
         SnapDrawImage(i, img, r[1], 0, r[2], HeightPx, 0, c, t, m, "nearest")
    \/ \E i \in Img, x \in Pix, f \in dom.failAts, rf \in dom.readFails : SnapAt(i, x, 0, f, rf)
    \/ \E f \in dom.failAts : FlushCommands(f)
    \/ ContextLost
    \/ \E o \in Orders(theImages.images), f \in dom.failAts : Restore(o, f)

SpecSnapshot == InitSnapshot /\ [][NextSnapshot]_vars

\* Draws onto and from volatile images and the screen, with restoring enabled
\* or not, and draws onto an image whose history is nearly full.
DomVolatile ==
    [DomMain EXCEPT !.volatiles = {FALSE, TRUE}, !.replaceRects = {FullRect},
                    !.rects = {FullRect}, !.failAts = {0}, !.readFails = {FALSE},
                    !.maxGets = MaxGets - 1]

\* The draws made before a run that starts with a long history, and the draws
\* that may follow them.
HistoryDraws == maxDrawImageHistoryNum - 1
MoreDraws == MaxGets - 1

DomHistory ==
    [DomMain EXCEPT !.maxImages = NumImages, !.replaceRects = {FullRect},
                    !.rects = {FullRect}, !.tints = {Nil, "red"},
                    !.failAts = {0}, !.readFails = {FALSE},
                    !.maxGets = HistoryDraws + MoreDraws, !.maxQueued = MaxQueued + 1,
                    !.losses = 0]

\* k more draws onto image NumImages, from images 1 and 2 in turn, each
\* followed by a Flush.
RECURSIVE DrawInTurn(_, _)
DrawInTurn(w, k) ==
    IF k = 0 \/ ~Running(w) THEN w
    ELSE DrawInTurn(
             commandQueue_Flush(
                 restorable_DrawImage(w, NumImages, 1 + (k % 2), 0, 0, WidthPx, HeightPx, 0,
                                      "id", Nil, "copy", "nearest"),
                 0),
             k - 1)

\* Images 1 and 2 are filled, and image NumImages was drawn onto from them
\* HistoryDraws times.
WorldHistory ==
    DrawInTurn(
        commandQueue_Flush(
            restorable_ReplacePixels(
                restorable_ReplacePixels(
                    restorable_NewImage(
                        restorable_NewImage(
                            restorable_NewImage(World0(DomHistory), 1, FALSE), 2, FALSE),
                        NumImages, FALSE),
                    1, [p \in 1..WidthPx |-> MaxColor], 0, 0, WidthPx, HeightPx),
                2, [p \in 1..WidthPx |-> MaxColor], 0, 0, WidthPx, HeightPx),
            0),
        HistoryDraws)

InitDraw ==
    \/ \E r \in BOOLEAN : InitWith([DomVolatile EXCEPT !.restoring = r])
    \/ InitFrom(WorldHistory)

NewScreenFramebufferImage ==
    /\ Alive /\ Room /\ Unmade # {}
    /\ \A j \in Img : ~images[j].screen
    /\ LET i == CHOOSE j \in Unmade : \A k \in Unmade : j <= k
       IN Commit(restorable_NewScreenFramebufferImage(World, i),
                 Call("NewScreenFramebufferImage", i, 0))

\* Image.IsInvalidated reports no context loss when restoring is disabled, so
\* the registry's restore is not reached then.
NextDraw ==
    \/ \E v \in dom.volatiles : NewImage(v)
    \/ NewScreenFramebufferImage
    \/ \E i \in Img, r \in dom.replaceRects :
         \E pixels \in [1..r[2] -> dom.colors] : ReplacePixels(i, pixels, r[1], 0, r[2], HeightPx)
    \/ \E i, img \in Img, r \in dom.rects, c \in dom.colorms, t \in dom.tints, m \in dom.modes :
         DrawImage(i, img, r[1], 0, r[2], HeightPx, 0, c, t, m, "nearest")
    \/ \E i \in Img, x \in Pix, f \in dom.failAts, rf \in dom.readFails : At(i, x, 0, f, rf)
    \/ \E f \in dom.failAts : FlushCommands(f)
    \/ \E o \in Orders(theImages.images), f \in dom.failAts : ResolveStalePixels(o, f)
    \/ dom.restoring /\ ContextLost
    \/ \E o \in Orders(theImages.images), f \in dom.failAts : Restore(o, f)

SpecDraw == InitDraw /\ [][NextDraw]_vars

\* Image.vertices on its own: every source rectangle with corners from one
\* pixel before the image to one pixel past it.
DomVertices == [DomMain EXCEPT !.maxImages = 1, !.tints = {Nil, "red"}, !.maxGets = MaxGets - 2]

CornersX == (0 - 1)..(WidthPx + 1)
CornersY == (0 - 1)..(HeightPx + 1)

InitVertices == InitWith(DomVertices)

\* The state after img.vertices(rect...) took World to w.
VerticesCall(w, i, rect) ==
    Commit(w, [Call("vertices", i, 0) EXCEPT
                  !.tuple = rect,
                  !.nv = IF w.slice = NilSlice THEN 0
                         ELSE QuadVerticesNum * SliceLen(w.slice)])

Vertices(i, sx0, sy0, sx1, sy1, tint) ==
    /\ Alive /\ i \in Live
    /\ theVerticesBackend.head < dom.maxGets
    /\ VerticesCall(Image_vertices(World, sx0, sy0, sx1, sy1, tint, 0), i,
                    <<sx0, sy0, sx1, sy1>>)

NextVertices ==
    \/ \E v \in dom.volatiles : NewImage(v)
    \/ \E i \in Img, sx0, sx1 \in CornersX, sy0, sy1 \in CornersY, t \in dom.tints :
         Vertices(i, sx0, sy0, sx1, sy1, t)

SpecVertices == InitVertices /\ [][NextVertices]_vars

\* Draws onto several images in turn, with two source rectangles and two
\* tints, so that the quads of different history entries differ and lie next
\* to one another in the vertices backend.
DomMerge ==
    [DomMain EXCEPT !.maxImages = NumImages, !.replaceRects = {FullRect},
                    !.rects = {FullRect, LeftRect}, !.tints = {Nil, "red"},
                    !.failAts = {0}, !.readFails = {FALSE}, !.losses = 0]

InitMerge == InitWith(DomMerge)

NextMerge ==
    \/ \E v \in dom.volatiles : NewImage(v)
    \/ \E i, img \in Img, r \in dom.rects, c \in dom.colorms, t \in dom.tints, m \in dom.modes :
         DrawImage(i, img, r[1], 0, r[2], HeightPx, 0, c, t, m, "nearest")
    \/ \E f \in dom.failAts : FlushCommands(f)

SpecMerge == InitMerge /\ [][NextMerge]_vars

\* Images drawn from one another, up to a chain of NumImages images.
InitChain == InitWith(DomChain)

NextChain ==
    \/ \E v \in dom.volatiles : NewImage(v)
    \/ \E i \in Img, r \in dom.replaceRects :
         \E pixels \in [1..r[2] -> dom.colors] : ReplacePixels(i, pixels, r[1], 0, r[2], HeightPx)
    \/ \E i, img \in Img, r \in dom.rects, c \in dom.colorms, t \in dom.tints, m \in dom.modes :
         DrawImage(i, img, r[1], 0, r[2], HeightPx, 0, c, t, m, "nearest")
    \/ \E f \in dom.failAts : FlushCommands(f)
    \/ ContextLost
    \/ \E o \in Orders(theImages.images), f \in dom.failAts : Restore(o, f)

SpecChain == InitChain /\ [][NextChain]_vars

----------------------------------------------------------------------------
(* Properties of restorable.Image, checked under Spec *)

Returned(op) == last.op = op /\ last.out = NoOut

\* C1 (staleness propagation): a ReplacePixels call on a live image X that
\* returns leaves every other live image whose history had an entry with
\* source X stale, and leaves every other live image whose history had no such
\* entry with the cache, history and stale flag it had.
C1_StalenessPropagation ==
    [][(last'.op = "ReplacePixels" /\ last'.out = NoOut) =>
          \A y \in Live \ {last'.img} :
              IF References(y, last'.img)
              THEN images'[y].stale
              ELSE images'[y] = images[y]]_vars

C1_Witness ==
    /\ Returned("ReplacePixels")
    /\ last.dependents # {}
    /\ \A y \in last.dependents : y \in Live /\ images[y].stale

\* The three ways an image describes its content.
HasCache(i) == images[i].basePixels # NilPixels
HasHistory(i) == images[i].drawImageHistory # <<>>
IsStale(i) == images[i].stale

Ways(i) == (IF HasCache(i) THEN 1 ELSE 0) + (IF HasHistory(i) THEN 1 ELSE 0)
           + (IF IsStale(i) THEN 1 ELSE 0)

\* C2 as stated (cache/history exclusivity): every live image that is past
\* its creation state has exactly one of {cache non-nil, history non-empty,
\* stale}.
C2_ExactlyOne ==
    \A i \in Live : PreTag(i) # "fresh" => Ways(i) = 1

\* C2 as amended: a stale image has neither cache nor history; a cache and a
\* history may be present together (the history is replayed over the cache).
C2_StaleExcludesOthers ==
    \A i \in Live : IsStale(i) => ~HasCache(i) /\ ~HasHistory(i)

C2_Witness ==
    /\ Returned("ReplacePixels")
    /\ \E i \in Live : IsStale(i)

\* The pixels of image i's texture once the queued commands have run.
SettledPixels(i) == TexPix(Settled(World), ImageRef(World, i))

\* C3 (ReplacePixels leaves the cache equal to the GPU content): after a
\* ReplacePixels call with a valid rectangle returns, whatever the image was
\* before (fresh, cache, history, stale), the image has no history, is not
\* stale, and its cache equals the pixels its texture holds once the queued
\* commands have run.
C3_ReplaceSyncsCache ==
    Returned("ReplacePixels") =>
        /\ ~HasHistory(last.img)
        /\ ~IsStale(last.img)
        /\ images[last.img].basePixels = SettledPixels(last.img)

----------------------------------------------------------------------------
(* Restoring after a context loss *)

\* The pixels of image i's texture now.
TexturePixels(i) == TexPix(gpu, ImageRef(World, i))

\* C4 (restoration idempotence), checked under SpecReplace, where ReplacePixels
\* is the only call that writes an image: after restore returns, every
\* live image's new texture and its cache hold exactly the pixels the image
\* showed before the context was lost.
C4_RestoreReproduces ==
    Returned("Restore") =>
        \A i \in Live : /\ TexturePixels(i) = ctx.before[i]
                        /\ images[i].basePixels = ctx.before[i]

C4_Witness ==
    /\ Returned("Restore")
    /\ \E i \in Live : /\ ctx.before[i] = <<MaxColor, 0>> \o [p \in 1..(WidthPx - 2) |-> 0]
                       /\ images[i].basePixels = ctx.before[i]
                       /\ images[i].image = ctx.epoch

\* a is drawn from b and b from c; none of them is stale.
Chain(a, b, c) ==
    /\ {a, b, c} \subseteq Live /\ a # b /\ b # c /\ a # c
    /\ ~IsStale(a) /\ ~IsStale(b) /\ ~IsStale(c)
    /\ References(a, b) /\ References(b, c)

\* C5 (restoration replay), checked under SpecChain: when a is drawn from b
\* drawn from c, restore returns without error or panic whatever order the
\* registry is enumerated in, and reading a pixel of a then gives the value it
\* had before the context was lost.
C5_RestoreReplaysChain ==
    [][\A a, b, c \in Img :
          (last'.op = "Restore" /\ Chain(a, b, c)) =>
              /\ last'.out = NoOut
              /\ images'[a].basePixels = ctx.before[a]
              /\ images'[a].drawImageHistory = <<>>
              /\ ~images'[a].stale]_vars

\* C6 (sources are restored first), checked under SpecChain: restore never
\* replays a history entry whose source still has a history of its own, so
\* it never panics with "not reached".
C6_SourcesRestoredFirst ==
    last.op = "Restore" => last.out.kind # "panic"

----------------------------------------------------------------------------
(* Properties of the command queue, checked under SpecQueue *)

\* The run of draws the last call belongs to left exactly one command, whose
\* counts are the sums over the run.
RunIsOneCommand ==
    LET cs == theCommandQueue.commands
    IN /\ Len(cs) = last.q0 + 1
       /\ cs[Len(cs)].kind = "draw"
       /\ cs[Len(cs)].nvertices = last.nv
       /\ cs[Len(cs)].nindices = last.ni

\* C7 as stated (merge correctness): N >= 1 draws in immediate succession
\* with the same (target, source, colour transform, tint, blend mode, filter)
\* leave exactly one queued draw command whose vertex and index counts are the
\* sums over the N calls.
C7_MergeRun ==
    Returned("EnqueueDrawImageCommand") => RunIsOneCommand

\* C7 as amended: the same, for a run none of whose draws after the first
\* crosses the end of the index buffer and whose first draw is not merged
\* into a command queued before the run (the queue does not compare tints).
C7_MergeRunWithinBuffer ==
    (Returned("EnqueueDrawImageCommand") /\ ~last.split /\ ~last.premerge) => RunIsOneCommand

C7_Witness ==
    /\ Returned("EnqueueDrawImageCommand")
    /\ last.run >= 2 /\ ~last.split /\ ~last.premerge
    /\ last.q0 >= 1
    /\ RunIsOneCommand

\* The index and vertex counts of the commands a Flush executed.
RECURSIVE ExecutedIndices(_)
ExecutedIndices(log) ==
    IF log = <<>> THEN 0
    ELSE SumSeq([k \in 1..Len(Head(log).cmds) |-> NumIndices(Head(log).cmds[k])])
         + ExecutedIndices(Tail(log))

RECURSIVE ExecutedVertices(_)
ExecutedVertices(log) ==
    IF log = <<>> THEN 0
    ELSE SumSeq([k \in 1..Len(Head(log).cmds) |-> NumVertices(Head(log).cmds[k])])
         + ExecutedVertices(Tail(log))

ChunksFit == \A k \in 1..Len(last.log) : last.log[k].ne <= indicesNum

AllExecuted ==
    /\ ExecutedIndices(last.log) = last.enqi
    /\ ExecutedVertices(last.log) = last.enqv

FailedAt ==
    IF last.out # NoOut /\ last.log # <<>>
    THEN Len(last.log[Len(last.log)].cmds) + 1
    ELSE 0

\* The texture of image i could not be created.
CreateFailed(i) ==
    /\ FailedAt \in 1..Len(theCommandQueue.commands)
    /\ theCommandQueue.commands[FailedAt].kind = "new"
    /\ theCommandQueue.commands[FailedAt].dst = ImageRef(World, i)

\* C16 (resource exhaustion on create), checked under Spec: an image whose
\* texture could not be created is not in the registry's live set.
C16_FailedCreateNotRegistered ==
    \A i \in theImages.images : ~CreateFailed(i)

\* The registered images restore cannot rebuild: stale, and neither volatile
\* nor the screen.
StaleToRestore ==
    {i \in theImages.images : images[i].stale /\ ~images[i].volatile /\ ~images[i].screen}

\* C17 (restoring a stale image is an error), checked under Spec: when the
\* registry's restore meets a stale image that is neither volatile nor the
\* screen, it returns an error; that image keeps its cache, history, stale
\* flag and graphics image, and no texture is created for it.
C17_StaleRestoreFails ==
    [][(last'.op = "Restore" /\ StaleToRestore # {}) =>
          /\ last'.out.kind = "error"
          /\ \A i \in StaleToRestore :
                /\ images'[i] = images[i]
                /\ gpu'[i] = gpu[i]
                /\ \A k \in 1..Len(theCommandQueue'.commands) :
                      theCommandQueue'.commands[k].dst # GRef(i, ctx'.epoch)]_vars

\* restore has rebuilt one image and then stopped at a stale one.
C17_Witness ==
    /\ last.op = "Restore"
    /\ last.out = [kind |-> "error", msg |-> "restorable: pixels must not be stale when restoring"]
    /\ \E i, j \in theImages.images :
          /\ images[i].stale /\ images[i].image # ctx.epoch
          /\ ~images[j].stale /\ images[j].image = ctx.epoch

\* The draw the step enqueues was merged into the last queued command / was
\* appended as a command of its own.
MergedStep ==
    LET cs == theCommandQueue.commands
        n == Len(cs)
    IN /\ n > 0
       /\ theCommandQueue'.commands =
              [cs EXCEPT ![n].nvertices = @ + (last'.enqv - Enqueued.v),
                         ![n].nindices = @ + (last'.enqi - Enqueued.i)]

AppendedStep ==
    LET t == last'.tuple
    IN theCommandQueue'.commands =
           Append(theCommandQueue.commands,
                  drawImageCommand(ImageRef(World, t[1]), ImageRef(World, t[2]),
                                   last'.enqv - Enqueued.v, last'.enqi - Enqueued.i,
                                   t[3], t[5], t[6]))

\* The step's draw crosses the end of the index buffer.
SplitStep == theCommandQueue.tmpNumIndices + (last'.enqi - Enqueued.i) > indicesNum

EnqueueStep == last'.op = "EnqueueDrawImageCommand" /\ last'.out = NoOut

\* C19 as stated (merge rule): a draw enqueued right after another draw is
\* merged into that draw's command if and only if the two have the same
\* target, source, colour transform, tint, composite mode and filter and no
\* split was forced; otherwise it is appended.
C19_MergeRule ==
    [][(EnqueueStep /\ last.op = "EnqueueDrawImageCommand") =>
          IF last'.tuple = last.tuple /\ ~SplitStep THEN MergedStep ELSE AppendedStep]_vars

\* The last queued command is a draw with the target, source, colour
\* transform, composite mode and filter of tuple t.
SameMaterial(t) ==
    LET cs == theCommandQueue.commands
    IN /\ Len(cs) > 0
       /\ cs[Len(cs)].kind = "draw"
       /\ cs[Len(cs)].dst = ImageRef(World, t[1])
       /\ cs[Len(cs)].src = ImageRef(World, t[2])
       /\ cs[Len(cs)].color = t[3]
       /\ cs[Len(cs)].mode = t[5]
       /\ cs[Len(cs)].filter = t[6]

\* C19 as amended: a draw is merged into the last queued command if and only
\* if that command is a draw with the same target, source, colour transform,
\* composite mode and filter and no split was forced, whatever the tints are;
\* otherwise it is appended.
C19_MergeRuleWithoutTint ==
    [][EnqueueStep =>
          IF SameMaterial(last'.tuple) /\ ~SplitStep THEN MergedStep ELSE AppendedStep]_vars

\* A draw that differs from the one before it only in its tint was merged.
C19_Witness ==
    /\ Returned("EnqueueDrawImageCommand")
    /\ last.run = 1 /\ last.premerge
    /\ last.tuple[4] = "red"
    /\ last.tuple[3] = "zero"
    /\ Len(theCommandQueue.commands) = 1
    /\ theCommandQueue.commands[1].nindices = last.enqi
    /\ last.enqi > last.ni

\* The commands a Flush executed, in the order it executed them.
RECURSIVE LogCommands(_)
LogCommands(log) ==
    IF log = <<>> THEN <<>> ELSE Head(log).cmds \o LogCommands(Tail(log))

\* The step enqueues behind the queued commands: it leaves every command but
\* the last as it is, and the last one too unless that is a draw.
EnqueuedBehind ==
    LET cs == theCommandQueue.commands
        cs2 == theCommandQueue'.commands
    IN /\ Len(cs2) \in {Len(cs), Len(cs) + 1}
       /\ Len(cs2) > 0
       /\ \A k \in 1..Len(cs) :
             (k < Len(cs) \/ cs[k].kind # "draw" \/ Len(cs2) = Len(cs) + 1) => cs2[k] = cs[k]

\* C20 (Flush runs the queue once, in order, and empties it): every enqueue
\* leaves the commands queued before it in place (a draw is merged into the
\* last command only, and only if that is a draw), and when Flush returns nil
\* the commands it executed are exactly the queued ones in their order, and the
\* queue has no command and no vertex and nindices, tmpNumIndices and
\* nextIndex are zero.
C20_FlushRunsQueueInOrder ==
    [][/\ (last'.op \in {"EnqueueDrawImageCommand", "ReplacePixels"} /\ last'.out = NoOut) =>
           EnqueuedBehind
       /\ (last'.op = "Flush" /\ last'.out = NoOut) =>
           /\ LogCommands(last'.log) = theCommandQueue.commands
           /\ theCommandQueue'.commands = <<>>
           /\ theCommandQueue'.vertices = <<>>
           /\ theCommandQueue'.nindices = 0
           /\ theCommandQueue'.tmpNumIndices = 0
           /\ theCommandQueue'.nextIndex = 0]_vars

\* A Flush has run a draw, a replace and a draw with the same target, source
\* and options as the first one.
C20_Witness ==
    /\ Returned("Flush")
    /\ theCommandQueue = EmptyQueue
    /\ \E k \in 1..Len(last.log) :
          LET cmds == last.log[k].cmds
          IN /\ Len(cmds) = 3
             /\ cmds[1].kind = "draw"
             /\ cmds[2].kind = "replace"
             /\ cmds[3] = cmds[1]

\* C21 (no command outgrows the index buffer): whatever draws of at most
\* indicesNum indices and other commands are enqueued, merges included, every
\* queued command has at most indicesNum indices, and neither
\* EnqueueDrawImageCommand nor Flush panics.
C21_CommandsFitIndexBuffer ==
    /\ \A k \in 1..Len(theCommandQueue.commands) :
          NumIndices(theCommandQueue.commands[k]) <= indicesNum
    /\ last.op \in {"EnqueueDrawImageCommand", "Flush"} => last.out.kind # "panic"

\* A run of draws with one tuple was merged until the next one no longer fitted
\* and was put into a command of its own.
C21_Witness ==
    LET cs == theCommandQueue.commands
        n == Len(cs)
    IN /\ Returned("EnqueueDrawImageCommand")
       /\ last.run >= 3 /\ last.split
       /\ n >= 2
       /\ cs[n - 1].kind = "draw" /\ cs[n].kind = "draw"
       /\ cs[n - 1].nindices = 2 * QuadIndicesNum
       /\ cs[n - 1].nindices + cs[n].nindices > indicesNum
       /\ CanMerge(cs[n - 1], cs[n].dst, cs[n].src, cs[n].color, cs[n].mode, cs[n].filter)

\* Where Flush will find the data of each queued command: for command k,
\* [io, vo, cv] are the offset of its indices in q.indices, the number of its
\* first vertex in q.vertices and the number of the first vertex of its
\* chunk, the chunks taken as Flush selects them.
RECURSIVE Layout(_, _, _, _, _, _, _)
Layout(cmds, k, ne, io, vo, cv, acc) ==
    IF k > Len(cmds) THEN acc
    ELSE LET new == ne + NumIndices(cmds[k]) > indicesNum
             nverts == NumVertices(cmds[k]) \div VertexSizeInFloats
         IN Layout(cmds, k + 1,
                   (IF new THEN 0 ELSE ne) + NumIndices(cmds[k]),
                   io + NumIndices(cmds[k]), vo + nverts,
                   IF new THEN vo ELSE cv,
                   Append(acc, [io |-> io, vo |-> vo, nverts |-> nverts,
                                cv |-> IF new THEN vo ELSE cv, new |-> new]))

QueueLayout == Layout(theCommandQueue.commands, 1, 0, 0, 0, 0, <<>>)

\* The positions at which the chunks after the first began in the Flush that
\* has just run.
RECURSIVE ChunkStarts(_, _, _)
ChunkStarts(log, k, at) ==
    IF k >= Len(log) THEN <<>>
    ELSE <<at + log[k].nc>> \o ChunkStarts(log, k + 1, at + log[k].nc)

\* C37: the chunks Flush selects begin exactly at the commands at which
\* EnqueueDrawImageCommand split, and every index stored for a queued draw
\* command, counted from the first vertex of its chunk, is the number of one
\* of that command's own vertices.
C37_ChunksAreSplits ==
    /\ last.out = NoOut => \A k \in 1..Len(theCommandQueue.commands) :
          /\ QueueLayout[k].new <=> (\E j \in 1..Len(Splits) : Splits[j] = k)
          /\ \A j \in 1..NumIndices(theCommandQueue.commands[k]) :
                LET v == theCommandQueue.indices[QueueLayout[k].io + j] + QueueLayout[k].cv
                IN v >= QueueLayout[k].vo /\ v < QueueLayout[k].vo + QueueLayout[k].nverts
    /\ Returned("Flush") => ChunkStarts(last.log, 1, 1) = last.splits

\* A Flush has run two chunks, one of them of several commands.
C37_Witness ==
    /\ Returned("Flush")
    /\ Len(last.log) = 2
    /\ Len(last.splits) = 1
    /\ \E k \in 1..2 : last.log[k].nc >= 2

\* The floats and indices the queued commands account for.
RECURSIVE SumOver(_, _, _)
SumOver(cmds, k, f) == IF k > Len(cmds) THEN 0 ELSE f[k] + SumOver(cmds, k + 1, f)

QueuedFloats == SumOver(theCommandQueue.commands, 1,
                        [k \in 1..Len(theCommandQueue.commands) |-> NumVertices(theCommandQueue.commands[k])])
QueuedIndices == SumOver(theCommandQueue.commands, 1,
                         [k \in 1..Len(theCommandQueue.commands) |-> NumIndices(theCommandQueue.commands[k])])

\* The commands of the last chunk of a log whose Exec returned nil.
ExecutedInLastChunk(log) == IF log = <<>> THEN 0 ELSE Len(log[Len(log)].cmds)

\* C38: a Flush that returns an error leaves in the queue no command it has
\* executed, and leaves the queue's vertices and indices those of the queued
\* commands; a Flush called after it executes no command that the failed one
\* had executed.
C38_FailedFlushLeavesQueueClean ==
    /\ last.op = "Flush" /\ last.out.kind = "error" => ExecutedInLastChunk(last.log) = 0
    /\ Len(theCommandQueue.vertices) * VertexSizeInFloats = QueuedFloats
    /\ theCommandQueue.nindices = QueuedIndices
    /\ last.op = "Flush" /\ ExecutedInLastChunk(last.failed) > 0 =>
          last.log = <<>> \/ last.log[1].cmds = <<>>

\* The number of commands a Flush has removed from the queue.
RECURSIVE RemovedCommands(_, _)
RemovedCommands(log, k) == IF k > Len(log) THEN 0 ELSE log[k].nc + RemovedCommands(log, k + 1)

\* C39: whatever has been enqueued, the chunk Flush selects at any point of
\* the queue holds at least one command and the selection does not panic, and
\* a Flush that has returned nil has made at most as many iterations as there
\* were commands, each removing at least one, and has reset the queue.
C39_FlushTerminates ==
    /\ \A k \in 0..(Len(theCommandQueue.commands) - 1) :
          LET pre == FlushPrefix(Drop(theCommandQueue.commands, k), 1, 0, 0, 0)
          IN pre.nc >= 1 /\ ~pre.panic
    /\ Returned("Flush") =>
          /\ \A k \in 1..Len(last.log) : last.log[k].nc >= 1
          /\ Len(last.log) <= RemovedCommands(last.log, 1)
          /\ theCommandQueue = EmptyQueue

\* A Flush has returned after two iterations, each for one command that
\* fills the index buffer exactly.
C39_Witness ==
    /\ Returned("Flush")
    /\ Len(last.log) = 2
    /\ \A k \in 1..2 : last.log[k].nc = 1 /\ last.log[k].ne = indicesNum

----------------------------------------------------------------------------
(* Properties of the finalizer, checked under SpecFinalizer *)

ScanOps == {"resolveStalePixels", "restore"}

\* C40: whenever resolveStalePixels or restore scans the registry, every
\* image of its map still has its restorable state: an image whose state the
\* finalizer has disposed is no longer in the map.
C40_ScansSeeNoDisposedImage ==
    [][last'.op \in ScanOps => \A z \in theImages.forRestoring : IsLive(World, z)]_vars

----------------------------------------------------------------------------
(* Properties of Dispose, DrawImage and At, checked under Spec *)

\* C22 (Dispose invalidates dependents before the GPU handle is released): a
\* Dispose call on image X leaves every image whose history referenced X stale,
\* with no cache and no history, at a time when X's texture has not been
\* released yet (the dispose command is queued behind the pending commands);
\* X has left the registry and has no cache and no history; and in every state
\* every history entry of a live image that is not stale has a live source.
C22_DisposeInvalidatesFirst ==
    /\ [][last'.op = "Dispose" =>
            /\ \A y \in last'.dependents :
                  /\ images'[y].stale
                  /\ images'[y].basePixels = NilPixels
                  /\ images'[y].drawImageHistory = <<>>
            /\ gpu' = gpu
            /\ theCommandQueue'.commands =
                  Append(theCommandQueue.commands, disposeCommand(ImageRef(World, last'.img)))
            /\ last'.img \notin theImages'.images
            /\ images'[last'.img].basePixels = NilPixels
            /\ images'[last'.img].drawImageHistory = <<>>]_vars
    /\ [](\A y \in Live :
            ~images[y].stale =>
                \A k \in 1..Len(images[y].drawImageHistory) :
                    images[y].drawImageHistory[k].image \in Live)

\* An image that another live image was drawn from has been disposed; its
\* texture is still there and the other image is stale.
C22_Witness ==
    /\ Returned("Dispose")
    /\ last.dependents # {}
    /\ \A y \in last.dependents : y \in Live /\ images[y].stale
    /\ gpu[last.img].pix # NilPixels
    /\ theCommandQueue.commands # <<>>

\* C27 (At, fast path): an At call on an image that has a cache, no history
\* and is not stale returns the cached pixel without an error, whether or not
\* the GPU would fail, and changes no image, no queued command, no texture and
\* no vertex slot.
C27_FastPath ==
    [][(last'.op = "At" /\ last'.pre = "cache") =>
          /\ last'.out = NoOut
          /\ last'.ret = images[last'.img].basePixels[last'.x + 1]
          /\ last'.log = <<>>
          /\ UNCHANGED <<images, theImages, theCommandQueue, theVerticesBackend, gpu>>]_vars

\* The cache answered while a command was still queued.
C27_Witness ==
    /\ Returned("At")
    /\ last.pre = "cache"
    /\ last.ret = MaxColor
    /\ theCommandQueue.commands # <<>>

\* C28 (At, slow path): an At call inside the image on an image that has no
\* cache, or a history, or is stale runs every queued command and then reads the
\* texture: when it returns a colour, the queue is empty, the textures hold
\* what the queued commands produce, the cache is the whole texture of the
\* image, the history is empty, the image is not stale and the colour is the
\* texture's; otherwise it returns an error and the history and the stale
\* flag are as they were.
C28_SlowPath ==
    [][(last'.op = "At" /\ last'.pre # "cache") =>
          IF last'.out = NoOut
          THEN /\ theCommandQueue' = EmptyQueue
               /\ gpu' = Settled(World)
               /\ images'[last'.img].basePixels = SettledPixels(last'.img)
               /\ Len(images'[last'.img].basePixels) = WidthPx * HeightPx
               /\ images'[last'.img].drawImageHistory = <<>>
               /\ ~images'[last'.img].stale
               /\ last'.ret = SettledPixels(last'.img)[last'.x + 1]
          ELSE /\ last'.out.kind = "error"
               /\ images'[last'.img].drawImageHistory = images[last'.img].drawImageHistory
               /\ images'[last'.img].stale = images[last'.img].stale]_vars

\* An At call on an image with a cache and a history has run the queued draw
\* and read the texture.
C28_Witness ==
    /\ Returned("At")
    /\ last.pre = "cache+history"
    /\ last.log # <<>>
    /\ last.ret = MaxColor
    /\ images[last.img].basePixels = [p \in 1..WidthPx |-> MaxColor]
    /\ images[last.img].drawImageHistory = <<>>

\* C25 (a draw without vertices does nothing): a DrawImage call whose source
\* rectangle yields no vertices returns and changes no image (the target and
\* the images drawn from it included), not the registry, no vertex slot, no
\* queued command and no texture.
C25_EmptyDrawIsNoOp ==
    [][(/\ last'.op = "DrawImage"
        /\ VerticesIsNil(last'.x, 0, last'.x + last'.width, HeightPx)) =>
          /\ last'.out = NoOut
          /\ UNCHANGED <<images, theImages, theCommandQueue, theVerticesBackend, gpu>>]_vars

\* The target of a draw without vertices still has its cache, and the image
\* drawn from it still has its history and is not stale.
C25_Witness ==
    /\ Returned("DrawImage")
    /\ last.width = 0
    /\ last.pre = "cache"
    /\ PreTag(last.img) = "cache"
    /\ last.dependents # {}
    /\ \A y \in last.dependents : y \in Live /\ ~images[y].stale /\ References(y, last.img)

\* C30 (what restore leaves): when the registry's restore returns nil, every
\* live image that is neither volatile nor the screen has a cache of the
\* image's size that equals the pixels of its texture, no history, is not
\* stale, and has a graphics image made in the new context, other than the one
\* it had, whose texture exists.
C30_RestoredImages ==
    [][(last'.op = "Restore" /\ last'.out = NoOut) =>
          \A i \in Live :
              (~images[i].volatile /\ ~images[i].screen) =>
                  /\ images'[i].basePixels # NilPixels
                  /\ Len(images'[i].basePixels) = WidthPx * HeightPx
                  /\ images'[i].basePixels = TexPix(gpu', GRef(i, images'[i].image))
                  /\ images'[i].drawImageHistory = <<>>
                  /\ ~images'[i].stale
                  /\ images'[i].image # images[i].image
                  /\ images'[i].image = ctx'.epoch
                  /\ HasTexture(gpu', GRef(i, images'[i].image))
                  /\ images'[i].volatile = images[i].volatile
                  /\ images'[i].screen = images[i].screen]_vars

\* restore has replayed a draw onto the new texture of an image and read the
\* pixels back.
C30_Witness ==
    /\ Returned("Restore")
    /\ \E i \in Live :
          /\ images[i].basePixels = [p \in 1..WidthPx |-> MaxColor]
          /\ images[i].image = ctx.epoch
          /\ \E k \in 1..Len(last.log) :
                \E j \in 1..Len(last.log[k].cmds) :
                    /\ last.log[k].cmds[j].kind = "draw"
                    /\ last.log[k].cmds[j].dst = GRef(i, ctx.epoch)

----------------------------------------------------------------------------
(* Properties of the drawing history, checked under SpecDraw *)

\* The draw that has just been made had vertices.
DrewQuad == last'.op = "DrawImage" /\ last'.out = NoOut /\ last'.width > 0

\* DrawImage(T, S) gives up tracking T: S is stale once the registry has
\* visited it, or volatile, or T is the screen, or restoring is disabled.
GivesUp(T, S) ==
    \/ images[S].stale \/ References(S, T)
    \/ images[S].volatile \/ images[T].screen \/ ~dom.restoring

\* appendDrawImageHistory(T, ...) looks at T's history.
Tracked(T) == ~images[T].stale /\ ~images[T].volatile /\ ~images[T].screen

\* The draw described by tuple t merges into the last entry of T's history.
Merges(T, t) ==
    LET h == images[T].drawImageHistory
    IN Len(h) > 0 /\ canMerge(h[Len(h)], t[2], t[3], t[4], t[5], t[6])

\* Image T is stale, with no cache and no history, after the step.
MadeStale(T) ==
    /\ images'[T].stale
    /\ images'[T].basePixels = NilPixels
    /\ images'[T].drawImageHistory = <<>>

\* The step has put one quad drawn from S onto T in the command queue.
DrawEnqueued(T, S) ==
    LET cs == theCommandQueue'.commands
    IN /\ theCommandQueue'.nindices = theCommandQueue.nindices + QuadIndicesNum
       /\ Len(cs) > 0
       /\ cs[Len(cs)].kind = "draw"
       /\ cs[Len(cs)].dst = GRef(T, images[T].image)
       /\ cs[Len(cs)].src = GRef(S, images[S].image)

\* The step has recorded the draw described by tuple t in T's history, as a
\* new entry or merged into the last one.
DrawRecorded(T, t) ==
    LET h == images[T].drawImageHistory
        g == images'[T].drawImageHistory
    IN /\ ~images'[T].stale
       /\ images'[T].basePixels = images[T].basePixels
       /\ Len(g) > 0
       /\ canMerge(g[Len(g)], t[2], t[3], t[4], t[5], t[6])
       /\ IF Merges(T, t)
          THEN /\ Len(g) = Len(h)
               /\ SliceLen(g[Len(g)].vertices) = SliceLen(h[Len(h)].vertices) + 1
          ELSE /\ Len(g) = Len(h) + 1
               /\ SliceLen(g[Len(g)].vertices) = 1
       /\ \A k \in 1..(Len(g) - 1) : g[k] = h[k]

\* C23 as stated: a draw with vertices from S onto T marks T stale when S is
\* stale or volatile, T is the screen or restoring is disabled; otherwise, when
\* T is not stale, volatile or the screen, it records the draw in T's history;
\* in each case the draw is enqueued.
C23_DrawRecordsOrMarksStale ==
    [][DrewQuad =>
        LET T == last'.img
            S == last'.src
        IN /\ DrawEnqueued(T, S)
           /\ IF images[S].stale \/ images[S].volatile \/ images[T].screen \/ ~dom.restoring
              THEN MadeStale(T)
              ELSE Tracked(T) => DrawRecorded(T, last'.tuple)]_vars

\* C23, amended: the draw also marks T stale when S's history refers to T (the
\* registry makes S stale before S is looked at) and when T's history is full
\* and the draw does not merge into its last entry; a stale, volatile or screen
\* T that is not marked stale is left as it was.
C23_DrawRecordsUnlessCyclicOrFull ==
    [][DrewQuad =>
        LET T == last'.img
            S == last'.src
        IN /\ DrawEnqueued(T, S)
           /\ IF GivesUp(T, S) THEN MadeStale(T)
              ELSE IF ~Tracked(T)
              THEN /\ images'[T].stale = images[T].stale
                   /\ images'[T].basePixels = images[T].basePixels
                   /\ images'[T].drawImageHistory = images[T].drawImageHistory
              ELSE IF ~Merges(T, last'.tuple)
                      /\ Len(images[T].drawImageHistory) = maxDrawImageHistoryNum
              THEN MadeStale(T)
              ELSE DrawRecorded(T, last'.tuple)]_vars

\* A draw from a source that was neither stale nor volatile, onto an image
\* that had a cache, has left the target stale: the source's history referred
\* to the target.
C23_Witness ==
    /\ Returned("DrawImage") /\ last.width > 0
    /\ dom.restoring
    /\ last.pre = "cache"
    /\ last.src \in last.dependents
    /\ ~images[last.src].volatile /\ ~images[last.img].screen /\ ~images[last.img].volatile
    /\ images[last.src].stale
    /\ images[last.img].stale
    /\ images[last.img].basePixels = NilPixels
    /\ images[last.img].drawImageHistory = <<>>

\* C24: no history ever has more than maxDrawImageHistoryNum entries; a draw
\* that would add one more entry to a full history marks the image stale
\* instead, and a draw that merges into the last entry keeps the number of
\* entries, also when the history is full.
C24_HistoryBounded ==
    /\ [](\A i \in Img : Len(images[i].drawImageHistory) <= maxDrawImageHistoryNum)
    /\ [][DrewQuad /\ ~GivesUp(last'.img, last'.src) /\ Tracked(last'.img) =>
            LET T == last'.img
                n == Len(images[T].drawImageHistory)
            IN IF Merges(T, last'.tuple)
               THEN /\ Len(images'[T].drawImageHistory) = n
                    /\ ~images'[T].stale
                    /\ SliceLen(images'[T].drawImageHistory[n].vertices)
                         = SliceLen(images[T].drawImageHistory[n].vertices) + 1
               ELSE IF n = maxDrawImageHistoryNum
               THEN /\ images'[T].stale
                    /\ images'[T].drawImageHistory = <<>>
                    /\ images'[T].basePixels = NilPixels
               ELSE /\ Len(images'[T].drawImageHistory) = n + 1
                    /\ ~images'[T].stale]_vars

\* A draw has merged into the last entry of a full history.
C24_Witness ==
    /\ Returned("DrawImage") /\ last.width > 0
    /\ LET h == images[last.img].drawImageHistory
       IN /\ Len(h) = maxDrawImageHistoryNum
          /\ ~images[last.img].stale
          /\ h[Len(h)].image = last.src
          /\ SliceLen(h[Len(h)].vertices) = 2

\* The registered images restore rebuilds from nothing.
Cleared == {i \in theImages.images : images[i].volatile \/ images[i].screen}

\* The step has made a new, empty graphics image for image i: the command
\* creating it is queued, or it has run and nothing was drawn since.
MadeEmpty(i) ==
    LET c == IF images[i].screen
             THEN newScreenFramebufferImageCommand(GRef(i, ctx'.epoch), WidthPx, HeightPx)
             ELSE newImageCommand(GRef(i, ctx'.epoch), WidthPx, HeightPx)
        cs == theCommandQueue'.commands
    IN /\ images'[i].image = ctx'.epoch
       /\ ctx'.epoch # images[i].image
       /\ \/ /\ \E k \in 1..Len(cs) : cs[k] = c
             /\ \A k \in 1..Len(cs) : cs[k].dst = c.dst => cs[k] = c
          \/ /\ \A k \in 1..Len(cs) : cs[k].dst # c.dst
             /\ TexPix(gpu', c.dst) = ZeroPixels

\* C29: a volatile image and the screen never have a history; the registry's
\* restore fails only at a stale image that is neither, and when it returns it
\* has given each volatile and screen image, stale or not, a new empty
\* graphics image, no cache, no history and a cleared stale flag.
C29_VolatileAndScreen ==
    /\ [](\A i \in Img : images[i].volatile \/ images[i].screen =>
               images[i].drawImageHistory = <<>>)
    /\ [][last'.op = "Restore" =>
            /\ StaleToRestore = {} => last'.out = NoOut
            /\ last'.out = NoOut =>
                  \A i \in Cleared :
                     /\ MadeEmpty(i)
                     /\ images'[i].basePixels = NilPixels
                     /\ images'[i].drawImageHistory = <<>>
                     /\ ~images'[i].stale
                     /\ images'[i].volatile = images[i].volatile
                     /\ images'[i].screen = images[i].screen]_vars

\* restore has returned with a stale volatile image and the screen among the
\* registered images.
C29_Witness ==
    /\ Returned("Restore")
    /\ \E i \in last.stale : images[i].volatile /\ ~images[i].stale /\ images[i].image = ctx.epoch
    /\ \E i \in theImages.images : images[i].screen /\ images[i].image = ctx.epoch

\* The error restore returns for a stale image.
StaleError == [kind |-> "error", msg |-> "restorable: pixels must not be stale when restoring"]

\* C32: with restoring enabled, when resolveStalePixels returns no error no
\* registered image that is neither volatile nor the screen is stale; a
\* context loss or a flush leaves that so; and a restore that starts so never
\* returns the error for a stale image.
C32_ResolvedAfterFrame ==
    [][/\ (last'.op = "ResolveStalePixels" /\ last'.out = NoOut /\ dom.restoring) =>
            /\ StaleToRestore' = {}
            /\ \A i \in last'.stale :
                  (~images[i].volatile /\ ~images[i].screen) =>
                      /\ images'[i].basePixels # NilPixels
                      /\ images'[i].drawImageHistory = <<>>
       /\ (last'.op \in {"ContextLost", "FlushCommands"} /\ StaleToRestore = {}) =>
            StaleToRestore' = {}
       /\ (last'.op = "Restore" /\ StaleToRestore = {}) => last'.out # StaleError]_vars

\* resolveStalePixels has returned after reading back an image that was stale.
C32_Witness ==
    /\ Returned("ResolveStalePixels") /\ dom.restoring
    /\ StaleToRestore = {}
    /\ \E i \in last.stale :
          /\ ~images[i].volatile /\ ~images[i].screen
          /\ ~images[i].stale /\ images[i].basePixels # NilPixels
    /\ \E i \in last.stale : images[i].volatile /\ images[i].stale

----------------------------------------------------------------------------
(* Properties of Image.vertices, checked under SpecVertices *)

\* C26 as stated: no vertices when sx0 >= sx1 or sy0 >= sy1 or the rectangle
\* starts at or past the right or bottom edge of the image; one quad of
\* QuadVerticesNum vertices otherwise.
C26_NoVerticesPastFarEdge ==
    last.op = "vertices" =>
        LET r == last.tuple
        IN last.nv = IF \/ r[1] >= r[3] \/ r[2] >= r[4]
                        \/ r[1] >= WidthPx \/ r[2] >= HeightPx
                     THEN 0 ELSE QuadVerticesNum

\* C26, amended: no vertices, and no slot taken from the backend, when
\* sx0 >= sx1 or sy0 >= sy1 or the rectangle ends at or before the left or
\* top edge (sx1 <= 0 or sy1 <= 0); otherwise one quad of QuadVerticesNum
\* vertices holding the rectangle as given, in the next slot of the backend.
C26_NoVerticesBeforeNearEdge ==
    [][last'.op = "vertices" =>
        LET r == last'.tuple
            h == theVerticesBackend.head
        IN IF r[1] >= r[3] \/ r[2] >= r[4] \/ r[3] <= 0 \/ r[4] <= 0
           THEN /\ last'.nv = 0
                /\ theVerticesBackend' = theVerticesBackend
           ELSE /\ last'.nv = QuadVerticesNum
                /\ theVerticesBackend'.head = h + 1
                /\ theVerticesBackend'.mem[h + 1].sx0 = r[1]
                /\ theVerticesBackend'.mem[h + 1].sy0 = r[2]
                /\ theVerticesBackend'.mem[h + 1].sx1 = r[3]
                /\ theVerticesBackend'.mem[h + 1].sy1 = r[4]]_vars

\* A rectangle that starts past the right edge of the image has given a quad.
C26_Witness ==
    /\ Returned("vertices")
    /\ last.tuple[1] >= WidthPx /\ last.tuple[1] < last.tuple[3]
    /\ last.tuple[2] = 0 /\ last.tuple[4] = HeightPx
    /\ last.nv = QuadVerticesNum
    /\ theVerticesBackend.head = 1
    /\ theVerticesBackend.mem[1].sx0 = last.tuple[1]

\* C34: a stale image has no cache and no history, in every reachable state.
C34_StaleHoldsNothing ==
    \A i \in Img :
        images[i].stale =>
            /\ images[i].basePixels = NilPixels
            /\ images[i].drawImageHistory = <<>>

\* A draw with vertices onto an image that was stale has returned, and the
\* image is still stale.
C34_Witness ==
    /\ Returned("DrawImage") /\ last.width > 0
    /\ last.pre = "stale"
    /\ images[last.img].stale
    /\ ~images[last.src].stale /\ images[last.src].basePixels # NilPixels

\* The pixels of texture t inside the rectangle of the ReplacePixels call
\* that has just returned are the pixels passed to it.
RectHolds(t) ==
    \A q \in 1..WidthPx :
        (q - 1 >= last.x /\ q - 1 < last.x + last.width) => t[q] = last.p[q - last.x]

\* C33 as stated: when ReplacePixels returns, the texture of the image already
\* holds the new pixels in the rectangle.
C33_UploadedOnReturn ==
    Returned("ReplacePixels") =>
        RectHolds(TexPix(gpu, GRef(last.img, images[last.img].image)))

\* C33, amended: ReplacePixels changes no texture; it appends one replace
\* command for the rectangle to the command queue, and the texture holds the
\* new pixels in the rectangle once the queue has run.
C33_UploadQueued ==
    /\ [][(last'.op = "ReplacePixels" /\ last'.out = NoOut) =>
            /\ gpu' = gpu
            /\ theCommandQueue'.commands =
                  Append(theCommandQueue.commands,
                         replacePixelsCommand(GRef(last'.img, images[last'.img].image),
                                              last'.p, last'.x, 0, last'.width, HeightPx))]_vars
    /\ [](Returned("ReplacePixels") =>
            RectHolds(TexPix(Settled(World), GRef(last.img, images[last.img].image))))

\* ReplacePixels has returned and the texture of the image, made by an earlier
\* flush, does not hold the new pixels yet.
C33_Witness ==
    /\ Returned("ReplacePixels")
    /\ HasTexture(gpu, GRef(last.img, images[last.img].image))
    /\ ~RectHolds(TexPix(gpu, GRef(last.img, images[last.img].image)))
    /\ RectHolds(images[last.img].basePixels)
    /\ Len(theCommandQueue.commands) = 1
    /\ theCommandQueue.commands[1].kind = "replace"

----------------------------------------------------------------------------
(* Properties of the vertices kept in the history, checked under SpecMerge *)

\* The quads entry k of image j's history holds before and after the step.
QuadsBefore(j, k) == SliceQuads(theVerticesBackend, images[j].drawImageHistory[k].vertices)
QuadsAfter(j, k) == SliceQuads(theVerticesBackend', images'[j].drawImageHistory[k].vertices)

\* C35 (recorded vertices are only changed by a merge into their own entry):
\* a draw onto image T leaves the quads of every history entry of every other
\* image, and of every entry of T but the last, as they were; the last entry
\* of T keeps the quads it had and may get one more.
C35_RecordedVerticesKept ==
    [][last'.op = "DrawImage" =>
        \A j \in Img :
            \A k \in 1..Len(images'[j].drawImageHistory) :
                k <= Len(images[j].drawImageHistory) =>
                    IF j = last'.img /\ k = Len(images[j].drawImageHistory)
                    THEN SubSeq(QuadsAfter(j, k), 1, Len(QuadsBefore(j, k))) = QuadsBefore(j, k)
                    ELSE QuadsAfter(j, k) = QuadsBefore(j, k)]_vars

\* The quad Image.vertices writes for the draw that has just been made.
QuadDrawn == Quad(last'.x, 0, last'.x + last'.width, HeightPx, last'.tuple[4], 0)

\* C36 (enqueue copies the vertices and leaves the caller's slice alone): after
\* a draw with vertices, the slot of the vertices backend that was handed out
\* for it holds the quad as the vertex builder wrote it, tint included; the
\* queue's vertex buffer has grown by exactly the vertices of that quad; and
\* an entry newly recorded in the target's history holds that quad.
C36_EnqueueKeepsVertices ==
    [][DrewQuad =>
        LET h == theVerticesBackend.head
            T == last'.img
            n == Len(images'[T].drawImageHistory)
        IN /\ theVerticesBackend'.mem[h + 1] = QuadDrawn
           /\ theCommandQueue'.vertices = theCommandQueue.vertices \o QuadVertices(<<QuadDrawn>>)
           /\ n = Len(images[T].drawImageHistory) + 1 => QuadsAfter(T, n) = <<QuadDrawn>>]_vars

----------------------------------------------------------------------------
(* Properties of the public API, checked under SpecEbiten *)

DisposedOps == {"ebiten.Clear", "ebiten.Fill", "ebiten.DrawImage", "ebiten.ReplacePixels",
                "ebiten.Dispose"}

\* C31 (registry membership tracks liveness): an image is in the registry from
\* its creation until its dispose, in restorable's registry and in the public
\* package's theImagesForRestoring alike, so that no scan of either visits a
\* disposed image.
C31_RegistryTracksLiveness ==
    /\ theImages.images = {i \in Img : IsLive(World, i)}
    /\ theImages.forRestoring = {i \in Img : eimg[i] = "set"}

\* C9 (operations on a disposed image do nothing): a Clear, Fill, DrawImage
\* (as receiver), ReplacePixels or Dispose call on a handle that was disposed
\* does not panic, enqueues no command and changes no image.
C9_DisposedIsNoOp ==
    [][(last'.op \in DisposedOps /\ eimg[last'.img] = "nil") =>
          /\ last'.out = NoOut
          /\ theCommandQueue' = theCommandQueue
          /\ images' = images
          /\ eimg' = eimg]_vars

\* C10 (Dispose releases the texture once): the first Dispose call on a handle
\* enqueues one dispose command for its image, every later call returns without
\* a panic and changes nothing, and no texture is ever deleted twice.
C10_DisposeOnce ==
    /\ [](\A i \in Img : gpu[i].deleted <= 1)
    /\ [][last'.op = "ebiten.Dispose" =>
            /\ last'.out = NoOut
            /\ IF eimg[last'.img] = "nil"
               THEN UNCHANGED <<images, eimg, theImages, theCommandQueue, gpu>>
               ELSE /\ theCommandQueue'.commands =
                          Append(theCommandQueue.commands,
                                 disposeCommand(ImageRef(World, last'.img)))
                    /\ eimg'[last'.img] = "nil"]_vars

C10_Witness ==
    /\ Returned("ebiten.Dispose")
    /\ last.pre = "disposed"
    /\ gpu[last.img].deleted = 1
    /\ theCommandQueue.commands = <<>>

\* C11 (boundary reads): an At call with a coordinate outside the image returns
\* the transparent colour without a panic whatever the image holds (nothing,
\* a cache, a history, stale pixels), an At call on a disposed handle does so
\* for every coordinate, and neither reads from the GPU nor changes an image.
OutOfBounds(x, y) == x < 0 \/ y < 0 \/ WidthPx <= x \/ HeightPx <= y

C13_SelfDrawPanics ==
    [][(/\ last'.op = "ebiten.DrawImage"
        /\ last'.img = last'.src
        /\ eimg[last'.img] = "set") =>
          /\ last'.out.kind = "panic"
          /\ images' = images]_vars

MutatingOps == {"ebiten.Clear", "ebiten.Fill", "ebiten.DrawImage", "ebiten.ReplacePixels",
                "ebiten.Dispose"}

\* C18 (the lastChecked memo hides no dependent): after a Clear, Fill,
\* DrawImage, ReplacePixels or Dispose call on a handle that is not disposed,
\* every image whose history referenced that image before the call is stale,
\* whether or not the registry's scan was skipped; and no image's history
\* references the image lastChecked remembers.
C18_MemoHidesNoDependent ==
    /\ [][(last'.op \in MutatingOps /\ eimg[last'.img] = "set") =>
            \A y \in last'.dependents : images'[y].stale]_vars
    /\ [](theImages.lastChecked \in Img => Dependents(theImages.lastChecked) = {})

\* The scan was skipped: the call is on the image lastChecked remembered, which
\* another image, stale by now, had been drawn from.
C18_Witness ==
    /\ Returned("ebiten.Fill")
    /\ last.checked = last.img
    /\ last.pre = "cache"
    /\ \E y \in Live \ {last.img} : images[y].stale

----------------------------------------------------------------------------
(* Properties of ReplacePixels, checked under SpecReplace *)

\* The pixels of the rectangle of the last ReplacePixels call in a row of
\* pixels.
RectOf(pix) == [k \in 1..last.width |-> pix[last.x + k]]

----------------------------------------------------------------------------
(* Properties of a draw whose source changes later, checked under SpecSnapshot *)

\* C14 (source snapshot): a later ReplacePixels or DrawImage call on a source
\* S changes the content of no other image T (the queued commands run in call
\* order) and leaves every image whose history references S stale; At on T
\* returns the content T has once the queue has run; and when restore returns
\* after a context loss, every live image shows what it showed before the loss.
C14_SourceSnapshot ==
    /\ last.op \in {"ReplacePixels", "DrawImage"} =>
          \A t \in Img \ {last.img} :
              last.settled[t] # NilPixels =>
                  /\ SettledPixels(t) = last.settled[t]
                  /\ t \in last.dependents => images[t].stale
    /\ Returned("At") => last.ret = last.settled[last.img][last.x + 1]
    /\ Returned("Restore") => \A i \in Live : SettledPixels(i) = ctx.before[i]

\* T was drawn from S, the draw is still queued, and S has been rewritten with
\* other pixels since.
C14_Witness ==
    /\ Returned("ReplacePixels")
    /\ \E t \in Live \ {last.img} :
          /\ t \in last.dependents
          /\ images[t].stale
          /\ Len(theCommandQueue.commands) >= 2
          /\ theCommandQueue.commands[1].kind = "draw"
          /\ theCommandQueue.commands[1].src.id = last.img
          /\ SettledPixels(t) # SettledPixels(last.img)

====
